---- MODULE Spec2Model ----
(***************************************************************************)
(* Progressive-delivery controller of the OTP widget repository:           *)
(*   - scripts/auto-rollback.js      (the auto-rollback monitor loop)      *)
(*   - scripts/monitor-deployment.js (the deployment monitor, the ledger)  *)
(*   - scripts/prepare-release.js    (creation of ledger records)          *)
(*   - the canary deployment monitor (counters, shouldRollback, its loop)  *)
(*   - scripts/promote-canary.js     (evaluateMetrics)                     *)
(* Times are counted in check intervals, rates in basis points (1/10000),  *)
(* the deployment monitor's error percentage in tenths of a percent.       *)
(***************************************************************************)
EXTENDS Integers, Sequences, FiniteSets, TLC

VARIABLES
    \* ---- durable state shared by the scripts
    ledgerExists,         \* .deployment-record.json exists
    ledger,               \* its content: [canary |-> Seq, production |-> Seq]
    backups,              \* backups/backup_<stamp>.version files: set of [name, versionId]
    live,                 \* version id currently serving 100% of production
    \* ---- auto-rollback.js
    options,              \* parsed command line of auto-rollback.js
    arPc,                 \* "loop" | "confirm" | "exited"
    consecutiveFailures,  \* monitorDeployment's counter
    arNow,                \* Date.now() - startTime, in check intervals
    reports,              \* rollback-monitoring-*.json files written, in order
    initiatedAt,          \* ticks that logged "initiating rollback process"
    notifications,        \* sendNotification calls, in order
    pendingTarget,        \* rollbackVersion / rollbackName while the prompt is open
    backupCalls,          \* execSync('bash scripts/create-production-backup.sh') calls
    cloneCalls,           \* execSync('firebase hosting:clone ...') calls, in order
    arLog,                \* logger lines about the rollback target, in order
    arExit,               \* exit code of auto-rollback.js, -1 while running
    \* ---- monitor-deployment.js
    mdPc,                 \* "idle" | "running" | "exited"
    mdOptions,            \* [autoRollback, threshold, ticks]
    monitorVersion,       \* options.version
    deploymentType,       \* "canary" | "production"
    mdNow,                \* interval callbacks fired so far
    mdChecks,             \* per tick: checkRollbackConditions(metrics)
    mdStatusLog,          \* monitored status as read at start, then after each ledger write
    mdExit,               \* exit code of monitor-deployment.js, -1 while running
    mdErrors,             \* lines monitor-deployment.js wrote with console.error
    \* ---- two processes updating the ledger file at the same time
    lwPc,                 \* per writer: "idle" | "read" (file parsed, not yet written)
    lwJob,                \* per writer: the update it is making
    lwSnap,               \* per writer: the record object parsed from the file
    lwDone,               \* updates that ran to their end, in order
    \* ---- one call of a pure function of the scripts
    fnCall,               \* the function and its arguments
    fnResult,             \* [done |-> FALSE], then [done |-> TRUE, value |-> ...]
    \* ---- the canary deployment monitor
    cmPc,                 \* "idle" | "loop" | "exited"
    cmDuration,           \* config.duration, in check intervals
    cmNow,                \* Date.now() - startTime, in check intervals
    cmMetrics,            \* the metrics object: requests, errors, latencies, cpu, memory
    cmRollbacks,          \* triggerRollback calls
    cmOutcome,            \* how monitorCanary ended
    cmExit,               \* exit code of the canary monitor, -1 while running
    \* ---- promote-canary.js
    pcPc,                 \* "idle" | "start" | "confirm" | "exited"
    pcOptions,            \* parsed command line of promote-canary.js
    pcReports,            \* canary-evaluation-*.json files written, in order
    pcNotifications,      \* sendNotification calls, in order
    pcTrace,              \* prompt, backup and clone calls, in order
    pcBackupCalls,        \* execSync('bash scripts/create-production-backup.sh') calls
    pcCloneCalls,         \* execSync('firebase hosting:clone ...') calls, in order
    pcExit,               \* exit code of promote-canary.js, -1 while running
    \* inside one iteration of the auto-rollback loop, between its awaits
    tkTick,               \* iterations begun
    tkProbes,             \* per endpoint: notIssued, outstanding, or how it settled
    tkFetch,              \* per Datadog metric: notFetched, pending, recorded
    tkMetrics,            \* the metrics object getMetricsFromDatadog is filling
    tkSeries,             \* per metric: the points the Datadog query has for this check
    \* a live and a dry-run execution of auto-rollback.js on the same inputs
    eqRun,                \* per execution: position, counter and what it did so far
    \* deploy-canary.sh
    shPc,                 \* "idle", "loop" (inside monitor_deployment) or "exited"
    shOptions,            \* PERCENTAGE and the monitoring duration in check intervals
    shNow,                \* check intervals elapsed
    shErrors,             \* errors of monitor_deployment
    shChecks,             \* checks of monitor_deployment
    shOutcome,            \* how monitor_deployment returned
    shExit                \* exit code of deploy-canary.sh, -1 while running

arVars == <<options, arPc, consecutiveFailures, arNow, reports, initiatedAt,
            notifications, pendingTarget, backupCalls, cloneCalls, arLog, arExit>>
mdVars == <<mdPc, mdOptions, monitorVersion, deploymentType, mdNow, mdChecks,
            mdStatusLog, mdExit, mdErrors>>
envVars == <<ledgerExists, ledger, backups, live>>
lwVars == <<lwPc, lwJob, lwSnap, lwDone>>
fnVars == <<fnCall, fnResult>>
cmVars == <<cmPc, cmDuration, cmNow, cmMetrics, cmRollbacks, cmOutcome, cmExit>>
pcVars == <<pcPc, pcOptions, pcReports, pcNotifications, pcTrace, pcBackupCalls,
            pcCloneCalls, pcExit>>
tkVars == <<tkTick, tkProbes, tkFetch, tkMetrics, tkSeries>>
shVars == <<shPc, shOptions, shNow, shErrors, shChecks, shOutcome, shExit>>
outsideAR == <<mdVars, lwVars, fnVars, cmVars, pcVars, tkVars, eqRun, shVars>>      \* state of the other scripts
outsideMD == <<arVars, lwVars, fnVars, cmVars, pcVars, tkVars, eqRun, shVars>>
outsideLW == <<arVars, mdVars, fnVars, cmVars, pcVars, tkVars, eqRun, shVars>>
outsideFN == <<arVars, mdVars, lwVars, cmVars, pcVars, tkVars, eqRun, shVars>>
outsideCM == <<arVars, mdVars, lwVars, fnVars, pcVars, tkVars, eqRun, shVars>>
outsidePC == <<arVars, mdVars, lwVars, fnVars, cmVars, tkVars, eqRun, shVars>>
vars == <<envVars, arVars, mdVars, lwVars, fnVars, cmVars, pcVars, tkVars, eqRun, shVars>>

(***************************************************************************)
(* Bounds of the model                                                     *)
(***************************************************************************)
MaxTicks == 6          \* check intervals in one auto-rollback monitoring period
MaxInitBackups == 2    \* backup files present when auto-rollback.js starts

Null == -1             \* JavaScript null for a metric value (real values are >= 0)
NoVersion == "none"    \* options.rollbackTo === null
Running == -1          \* no exit code yet

VersionIds == {"v1", "v2"}   \* hosting versions that were live earlier
DeployedVersion == "v3"      \* the freshly deployed version under monitoring

Max(S) == CHOOSE x \in S : \A y \in S : y <= x

(***************************************************************************)
(* auto-rollback.js: thresholds, metric sources, evaluation                *)
(***************************************************************************)
MetricNames == {"errorRate", "p95Latency", "p99Latency", "cpuUsage",
                "memoryUsage", "rate5xx", "rate4xx"}

\* options.thresholds (defaults): rates in basis points, latencies in ms, usage in %
thresholds == [errorRate |-> 200, p95Latency |-> 500, p99Latency |-> 1000,
               cpuUsage |-> 80, memoryUsage |-> 80, rate5xx |-> 100,
               rate4xx |-> 500]

MAX_CONSECUTIVE_FAILURES == 3

\* simulateMetrics: every metric is a number, on either side of its threshold
\* (errorRate 0-3% against 2%, p95 300-600 against 500, ...). The samples taken
\* are: all metrics at their threshold, or exactly one metric one unit above.
simulateMetrics ==
    { [n \in MetricNames |-> IF n \in bad THEN thresholds[n] + 1 ELSE thresholds[n]] :
        bad \in {{}} \cup { {m} : m \in MetricNames } }

\* getMetricsFromDatadog: the request options are built from the inner
\* `options` binding before it is initialised, so every fetch throws inside
\* the try block and each metric is recorded as null.
getMetricsFromDatadog == { [n \in MetricNames |-> Null] }

\* Variant of metricPass without the null test (in JavaScript null <= t holds
\* for every t >= 0, as Null <= t does here)
metricPassNullIgnored(value, threshold) == value <= threshold

metricPass(value, threshold) == value # Null /\ value <= threshold

\* The results object and overallPass of evaluateMetrics, for the metrics
\* `names` and the thresholds th (options.thresholds)
evaluateAgainst(names, metrics, th) ==
    LET details == [n \in names |->
                      [value |-> metrics[n], threshold |-> th[n],
                       pass |-> metricPass(metrics[n], th[n])]]
    IN [pass |-> \A n \in names : details[n].pass, details |-> details]

evaluateMetrics(metrics) == evaluateAgainst(MetricNames, metrics, thresholds)

\* promote-canary.js: its four metrics, default thresholds and evaluateMetrics
CanaryMetricNames == {"errorRate", "p95Latency", "cpuUsage", "memoryUsage"}

canaryThresholds == [errorRate |-> 100, p95Latency |-> 300, cpuUsage |-> 70,
                     memoryUsage |-> 70]

canaryEvaluateMetrics(metrics) ==
    evaluateAgainst(CanaryMetricNames, metrics, canaryThresholds)

(***************************************************************************)
(* auto-rollback.js: endpoint health checks                                *)
(***************************************************************************)
Endpoints == {"Health Check", "API Status", "Auth Check"}
ProbeOutcomes == {"2xx", "non2xx", "error"}   \* error: transport error or timeout

probeSuccess(outcome) == outcome = "2xx"

checkEndpoints(probes) ==
    LET results == [e \in Endpoints |-> [success |-> probeSuccess(probes[e])]]
    IN [pass |-> \A e \in Endpoints : results[e].success, details |-> results]

(***************************************************************************)
(* auto-rollback.js: rollback target, confirmation, rollback               *)
(***************************************************************************)
NoBackup == [name |-> 0, versionId |-> NoVersion]

\* create-production-backup.sh: a new backup_<now>.version holding the live version
newBackup(bs, liveVersion) ==
    [name |-> (IF bs = {} THEN 0 ELSE Max({b.name : b \in bs})) + 1,
     versionId |-> liveVersion]

askForConfirmationNeedsOperator == ~options.autoRollback

\* logger.log('DRY RUN: Would roll back to version ...'), line 373
dryRunLine(versionId) == [line |-> "DRY RUN: Would roll back", versionId |-> versionId]

\* logger.error('No rollback version available. Cannot proceed.'), line 574
noVersionLine == [line |-> "No rollback version available", versionId |-> NoVersion]

\* Variant of confirmedRollback whose clone does not depend on the backup
confirmedRollbackBackupIgnored(target, notes, backupOk, cloneOk) ==
    LET success == options.dryRun \/ cloneOk
    IN /\ backupCalls' = IF options.dryRun THEN backupCalls ELSE backupCalls + 1
       /\ backups' = IF ~options.dryRun /\ backupOk
                     THEN backups \cup {newBackup(backups, live)} ELSE backups
       /\ cloneCalls' = IF ~options.dryRun
                        THEN Append(cloneCalls, target.versionId) ELSE cloneCalls
       /\ live' = IF ~options.dryRun /\ cloneOk THEN target.versionId ELSE live
       /\ arLog' = IF options.dryRun THEN Append(arLog, dryRunLine(target.versionId))
                   ELSE arLog
       /\ notifications' = Append(notes, IF success THEN "rolled_back"
                                                   ELSE "rollback_failed")
       /\ arPc' = "exited"
       /\ arExit' = 0

\* Variant of confirmedRollback that does not look at --dry-run
confirmedRollbackNoDryRun(target, notes, backupOk, cloneOk) ==
    LET success == backupOk /\ cloneOk
    IN /\ backupCalls' = backupCalls + 1
       /\ backups' = IF backupOk THEN backups \cup {newBackup(backups, live)}
                     ELSE backups
       /\ cloneCalls' = IF backupOk THEN Append(cloneCalls, target.versionId)
                        ELSE cloneCalls
       /\ live' = IF backupOk /\ cloneOk THEN target.versionId ELSE live
       /\ arLog' = arLog
       /\ notifications' = Append(notes, IF success THEN "rolled_back"
                                                   ELSE "rollback_failed")
       /\ arPc' = "exited"
       /\ arExit' = 0

\* What monitorDeployment does once the rollback is confirmed, lines 583-595:
\* rollbackToVersion (dry run: nothing is called; else backup, then clone; a
\* throwing execSync ends it with false), the notification, and break. After
\* the loop the counter is 3, so nothing else is sent; main returns and the
\* process ends with exit code 0.
confirmedRollback(target, notes, backupOk, cloneOk) ==
    LET success == options.dryRun \/ (backupOk /\ cloneOk)
    IN /\ backupCalls' = IF options.dryRun THEN backupCalls ELSE backupCalls + 1
       /\ backups' = IF ~options.dryRun /\ backupOk
                     THEN backups \cup {newBackup(backups, live)} ELSE backups
       /\ cloneCalls' = IF ~options.dryRun /\ backupOk
                        THEN Append(cloneCalls, target.versionId) ELSE cloneCalls
       /\ live' = IF ~options.dryRun /\ backupOk /\ cloneOk
                  THEN target.versionId ELSE live
       /\ arLog' = IF options.dryRun THEN Append(arLog, dryRunLine(target.versionId))
                   ELSE arLog
       /\ notifications' = Append(notes, IF success THEN "rolled_back"
                                                   ELSE "rollback_failed")
       /\ arPc' = "exited"
       /\ arExit' = 0

waitForNextCheck == arNow' = arNow + 1

\* Variant of findLatestBackup without the reverse(): the oldest file comes first
findOldestBackup(bs) ==
    IF bs = {} THEN NoBackup
    ELSE CHOOSE b \in bs : \A c \in bs : b.name <= c.name

\* Backup names are backup_<YYYYmmdd_HHMMSS>: sorting the file names and
\* reversing puts the greatest stamp first. A missing directory is the empty set.
findLatestBackup(bs) ==
    IF bs = {} THEN NoBackup
    ELSE CHOOSE b \in bs : \A c \in bs : c.name <= b.name

\* Lines 560-571: --rollback-to wins, else the latest backup, else nothing
rollbackTarget(bs) ==
    LET latest == findLatestBackup(bs)
    IN IF options.rollbackTo # NoVersion
       THEN [versionId |-> options.rollbackTo, name |-> "specified version"]
       ELSE [versionId |-> latest.versionId, name |-> "backup"]

\* Variant of noRollbackVersion that skips the check of line 573
noRollbackVersionUnchecked(target) == FALSE

\* if (!rollbackVersion), line 573
noRollbackVersion(target) == target.versionId = NoVersion

(***************************************************************************)
(* auto-rollback.js: monitorDeployment, one loop iteration per action      *)
(***************************************************************************)
ArOptions == [autoRollback : BOOLEAN, dryRun : BOOLEAN,
              rollbackTo : {NoVersion, "v1"}, datadogApiKey : BOOLEAN]

\* Backups captured before this run: stamps 1..k, one file per stamp
InitBackups ==
    { bs \in SUBSET [name : 1..MaxInitBackups, versionId : VersionIds] :
        /\ \A a, b \in bs : a.name = b.name => a = b
        /\ \A a \in bs : \A n \in 1..a.name : \E b \in bs : b.name = n }

\* Variant of counterAfter that keeps the counter on a passing tick
counterNoReset(failures, pass) == IF pass THEN failures ELSE failures + 1

counterAfter(failures, pass) == IF pass THEN 0 ELSE failures + 1

\* Variant of escalates that is off by one (> instead of >=)
escalatesLate(failures) == failures > MAX_CONSECUTIVE_FAILURES

escalates(failures) == failures >= MAX_CONSECUTIVE_FAILURES

\* Variant of counterAfterDecline that forgets the reset
counterKeptOnDecline(failures) == failures

counterAfterDecline(failures) == 0

\* Lines 499-616: health checks, metrics, evaluation, the report, the counter
\* and, on escalation, target determination and (in auto mode) the rollback.
monitorDeploymentTick(probes, metrics) ==
    LET healthCheck == checkEndpoints(probes)
        evaluation  == evaluateMetrics(metrics)
        pass        == evaluation.pass /\ healthCheck.pass
        failures    == counterAfter(consecutiveFailures, pass)
        tick        == Len(reports) + 1
        notes       == IF pass THEN notifications
                       ELSE Append(notifications, "check_failed")
        target      == rollbackTarget(backups)
    IN
    /\ arPc = "loop"
    /\ arNow < MaxTicks
    /\ reports' = Append(reports, IF pass THEN "PASS" ELSE "FAIL")
    /\ consecutiveFailures' = failures
    /\ UNCHANGED <<options, ledgerExists, ledger, outsideAR>>
    /\ IF ~pass /\ escalates(failures)
       THEN /\ initiatedAt' = initiatedAt \cup {tick}
            /\ UNCHANGED arNow
            /\ IF noRollbackVersion(target)
               THEN \* no rollback version available: log, notify and break
                    /\ arLog' = Append(arLog, noVersionLine)
                    /\ notifications' = Append(notes, "no_version")
                    /\ arPc' = "exited"
                    /\ arExit' = 0
                    /\ UNCHANGED <<pendingTarget, backupCalls, cloneCalls, backups, live>>
               ELSE IF askForConfirmationNeedsOperator
               THEN /\ arPc' = "confirm"
                    /\ pendingTarget' = target
                    /\ notifications' = notes
                    /\ UNCHANGED <<arExit, backupCalls, cloneCalls, arLog, backups, live>>
               ELSE /\ \E backupOk, cloneOk \in BOOLEAN :
                          confirmedRollback(target, notes, backupOk, cloneOk)
                    /\ UNCHANGED pendingTarget
       ELSE /\ notifications' = notes
            /\ waitForNextCheck
            /\ UNCHANGED <<initiatedAt, arPc, arExit, pendingTarget, backupCalls,
                           cloneCalls, arLog, backups, live>>

MetricsSource == IF options.datadogApiKey THEN getMetricsFromDatadog
                 ELSE simulateMetrics

ArTick ==
    \E probes \in [Endpoints -> ProbeOutcomes], metrics \in MetricsSource :
        monitorDeploymentTick(probes, metrics)

\* askForConfirmation resolves with the operator's answer (lines 581-601)
ArConfirm ==
    /\ arPc = "confirm"
    /\ UNCHANGED <<options, reports, initiatedAt, ledgerExists, ledger, outsideAR>>
    /\ \E confirmed \in BOOLEAN :
         IF confirmed
         THEN /\ \E backupOk, cloneOk \in BOOLEAN :
                    confirmedRollback(pendingTarget, notifications, backupOk, cloneOk)
              /\ UNCHANGED <<consecutiveFailures, arNow, pendingTarget>>
         ELSE /\ notifications' = Append(notifications, "cancelled")
              /\ consecutiveFailures' = counterAfterDecline(consecutiveFailures)
              /\ waitForNextCheck
              /\ arPc' = "loop"
              /\ UNCHANGED <<pendingTarget, arExit, backupCalls, cloneCalls, arLog,
                             backups, live>>

\* Variant of monitoringCompleted that asks for a passing last tick
monitoringCompletedAfterPass(failures) == failures = 0

\* if (consecutiveFailures < MAX_CONSECUTIVE_FAILURES), line 619
monitoringCompleted(failures) == failures < MAX_CONSECUTIVE_FAILURES

\* Variant of ArFinish that keeps waiting once the period has elapsed
ArFinishKeepsWaiting ==
    /\ arPc = "loop"
    /\ arNow >= MaxTicks
    /\ UNCHANGED vars

\* Lines 499 and 618-623: the period has elapsed, the loop is left
ArFinish ==
    /\ arPc = "loop"
    /\ arNow >= MaxTicks
    /\ notifications' = IF monitoringCompleted(consecutiveFailures)
                        THEN Append(notifications, "completed") ELSE notifications
    /\ arPc' = "exited"
    /\ arExit' = 0
    /\ UNCHANGED <<options, consecutiveFailures, arNow, reports, initiatedAt,
                   pendingTarget, backupCalls, cloneCalls, arLog, envVars, outsideAR>>

MonitoredDeployment(status) ==
    [version |-> "1.0.1", date |-> 1, status |-> status,
     metrics |-> [errors |-> Null, performance |-> Null, userSatisfaction |-> Null]]

Writers == {"w1", "w2"}     \* two operating-system processes

NoJob == [op |-> "none", type |-> "canary", errors |-> 0]

LwIdle ==
    /\ lwPc = [w \in Writers |-> "idle"]
    /\ lwJob = [w \in Writers |-> NoJob]
    /\ lwSnap = [w \in Writers |-> [canary |-> <<>>, production |-> <<>>]]
    /\ lwDone = <<>>

\* the metrics object of the canary monitor as declared (lines 260-271); the
\* latencies are kept as counts per value and the resource samples as sum and
\* count, which is all that the sorted copy and the average read
NoMetrics == [requests |-> 0, errors |-> 0, fast |-> 0, slow |-> 0,
              cpuSum |-> 0, memSum |-> 0, resourceSamples |-> 0]

CmIdle ==
    /\ cmPc = "idle"
    /\ cmDuration = 1
    /\ cmNow = 0
    /\ cmMetrics = NoMetrics
    /\ cmRollbacks = 0
    /\ cmOutcome = "none"
    /\ cmExit = Running

PcIdle ==
    /\ pcPc = "idle"
    /\ pcOptions = [autoPromote |-> FALSE, dryRun |-> FALSE, datadogApiKey |-> FALSE,
                    trafficPercentage |-> Null]
    /\ pcReports = <<>>
    /\ pcNotifications = <<>>
    /\ pcTrace = <<>>
    /\ pcBackupCalls = 0
    /\ pcCloneCalls = <<>>
    /\ pcExit = Running

EndpointOrder == <<"Health Check", "API Status", "Auth Check">>

MetricOrder == <<"errorRate", "p95Latency", "p99Latency", "cpuUsage",
                 "memoryUsage", "rate5xx", "rate4xx">>

TkIdle ==
    /\ tkTick = 0
    /\ tkProbes = [e \in Endpoints |-> "notIssued"]
    /\ tkFetch = [n \in MetricNames |-> "notFetched"]
    /\ tkMetrics = [n \in MetricNames |-> Null]
    /\ tkSeries = [n \in MetricNames |-> <<>>]

Twins == {"live", "dry"}

\* one execution of monitorDeployment: where it is, consecutiveFailures, the
\* iterations waited for, the evaluation of every check, the counter after
\* every check, the checks that initiated a rollback, and its calls of the
\* backup script and of the clone
NoRun == [pc |-> "idle", failures |-> 0, now |-> 0, evaluations |-> <<>>,
          counters |-> <<>>, initiated |-> {}, backupCalls |-> 0, cloneCalls |-> 0]

EqIdle == eqRun = [t \in Twins |-> NoRun]

ProductionVersion == "v2"     \* the version live before the promotion

ShIdle ==
    /\ shPc = "idle"
    /\ shOptions = [percentage |-> 10, duration |-> 1]
    /\ shNow = 0
    /\ shErrors = 0
    /\ shChecks = 0
    /\ shOutcome = "none"
    /\ shExit = Running

FnIdle ==
    /\ fnCall = [fn |-> "none"]
    /\ fnResult = [done |-> FALSE]

MdIdle ==
    /\ mdPc = "idle"
    /\ mdOptions = [autoRollback |-> FALSE, threshold |-> 10, ticks |-> 1]
    /\ monitorVersion = NoVersion
    /\ deploymentType = "canary"
    /\ mdNow = 0
    /\ mdChecks = <<>>
    /\ mdStatusLog = <<>>
    /\ mdExit = Running
    /\ mdErrors = <<>>

LedgerAR == [canary |-> <<>>, production |-> <<MonitoredDeployment("monitoring")>>]

\* auto-rollback.js started on a production deployment recorded in the ledger
InitAR ==
    /\ ledgerExists = TRUE
    /\ ledger = LedgerAR
    /\ backups \in InitBackups
    /\ live = DeployedVersion
    /\ options \in ArOptions
    /\ arPc = "loop"
    /\ consecutiveFailures = 0
    /\ arNow = 0
    /\ reports = <<>>
    /\ initiatedAt = {}
    /\ notifications = <<"start">>
    /\ pendingTarget = NoBackup
    /\ backupCalls = 0
    /\ cloneCalls = <<>>
    /\ arLog = <<>>
    /\ arExit = Running
    /\ MdIdle
    /\ LwIdle
    /\ FnIdle
    /\ CmIdle
    /\ PcIdle
    /\ TkIdle
    /\ EqIdle
    /\ ShIdle

NextAR == ArTick \/ ArConfirm \/ ArFinish

SpecAR == InitAR /\ [][NextAR]_vars

\* The run under its scheduling: while (Date.now() < endTime) starts the next
\* iteration as soon as the timer of the previous one has fired (the clock
\* advances), the operator answers every prompt of askForConfirmation, and
\* the statements after the loop run once its condition is false.
SpecARLive ==
    /\ SpecAR
    /\ WF_vars(ArTick)
    /\ WF_vars(ArConfirm)
    /\ WF_vars(ArFinish)

(***************************************************************************)
(* The deployment ledger (.deployment-record.json) and its writers         *)
(***************************************************************************)
MaxDeployments == 2    \* records prepare-release may add to the ledger
MaxMdTicks == 3        \* interval callbacks in one deployment-monitor period

Kinds == {"canary", "production"}
EmptyLedger == [canary |-> <<>>, production |-> <<>>]

\* prepare-release.js: canaryVersion for --version=1.0.1 --canary-number=1
releaseVersion(type) == IF type = "canary" THEN "1.0.1-canary.1" ELSE "1.0.1"

today == 1

\* Array.prototype.find(d => d.version === version): index of the first match, 0 if none
findIndex(list, version) ==
    IF \E i \in 1..Len(list) : list[i].version = version
    THEN CHOOSE i \in 1..Len(list) :
            /\ list[i].version = version
            /\ \A j \in 1..(i - 1) : list[j].version # version
    ELSE 0

\* Variant of updateDeploymentRecord that overwrites a record of the same version
updateDeploymentRecordReplacing(led, type) ==
    LET newDeployment == [version |-> releaseVersion(type), date |-> today,
                          status |-> "pending",
                          metrics |-> [errors |-> Null, performance |-> Null,
                                       userSatisfaction |-> Null]]
        index == findIndex(led[type], releaseVersion(type))
    IN IF index = 0 THEN [led EXCEPT ![type] = Append(@, newDeployment)]
       ELSE [led EXCEPT ![type][index] = newDeployment]

\* prepare-release.js updateDeploymentRecord: push a new pending record
updateDeploymentRecord(led, type) ==
    LET newDeployment == [version |-> releaseVersion(type), date |-> today,
                          status |-> "pending",
                          metrics |-> [errors |-> Null, performance |-> Null,
                                       userSatisfaction |-> Null]]
    IN [led EXCEPT ![type] = Append(@, newDeployment)]

\* Variant of statusAfterMetrics that marks every updated deployment as monitoring
statusAlwaysMonitoring(status) == "monitoring"

\* Variant of statusAfterMetrics that never leaves pending
statusKept(status) == status

\* monitor-deployment.js, lines 117-120
statusAfterMetrics(status) == IF status = "pending" THEN "monitoring" ELSE status

\* The object assigned to updatedDeployment.metrics, lines 108-115
metricsSnapshot(metrics) ==
    [errors |-> metrics.errors,
     performance |-> metrics.performance,
     userSatisfaction |-> metrics.userSatisfaction,
     botDetectionAccuracy |-> metrics.botDetectionAccuracy,
     fingerprintGenerationTime |-> metrics.fingerprint.generationTime,
     blockedAttempts |-> metrics.security.blockedAttempts]

updateDeploymentMetrics(led, type, version, metrics) ==
    LET i == findIndex(led[type], version)
    IN IF i = 0 THEN led
       ELSE [led EXCEPT ![type][i].metrics = metricsSnapshot(metrics),
                        ![type][i].status = statusAfterMetrics(@)]

checkRollbackConditions(metrics, errorThreshold) ==
    \/ metrics.errors > errorThreshold
    \/ metrics.performance < 80

\* what checkRollbackConditions and performRollback write with console.error
rollbackErrors(metrics, errorThreshold, autoRollback) ==
    (IF metrics.errors > errorThreshold THEN <<"error rate exceeds threshold">>
     ELSE IF metrics.performance < 80 THEN <<"performance below threshold">>
     ELSE <<>>)
    \o (IF checkRollbackConditions(metrics, errorThreshold) /\ autoRollback
        THEN <<"initiating rollback">> ELSE <<>>)

\* Variant of deploymentFound that accepts a version the ledger does not hold
deploymentFoundAlways(inCanary, inProduction) == TRUE

\* if (!deployment) ... process.exit(1), lines 62-65
deploymentFound(inCanary, inProduction) == inCanary \/ inProduction

\* Variant of rolledBackStatus with a status outside the four literals
rolledBackStatusOther == "failed"

rolledBackStatus == "rolled back"

\* performRollback, lines 148-159: whatever the status was, it is overwritten
performRollback(led, type, version) ==
    LET i == findIndex(led[type], version)
    IN IF i = 0 THEN led ELSE [led EXCEPT ![type][i].status = rolledBackStatus]

\* completeMonitoring, lines 167-178: whatever the status was, it is overwritten
completeMonitoring(led, type, version) ==
    LET i == findIndex(led[type], version)
    IN IF i = 0 THEN led ELSE [led EXCEPT ![type][i].status = "success"]

statusOf(led, type, version) ==
    LET i == findIndex(led[type], version)
    IN IF i = 0 THEN "absent" ELSE led[type][i].status

\* collectMetrics: errors is 0-0.5 (percent, here in tenths), performance
\* 90-100, satisfaction 4-5 (in tenths), accuracy 90-100, generation time
\* 50-100 ms, blocked attempts 0-9
collectMetrics ==
    [errors : {1, 4}, performance : {95}, userSatisfaction : {45},
     botDetectionAccuracy : {95},
     fingerprint : [generationTime : {75}, uniqueCount : {500}],
     security : [blockedAttempts : {5}, suspiciousActivities : {2}]]

\* --threshold: '1' by default; 0.2 is a stricter setting the mock can exceed
MdOptions == [autoRollback : BOOLEAN, threshold : {10, 2}, ticks : 1..MaxMdTicks]

MonitorVersions == {"1.0.1-canary.1", "1.0.1", "0.9.0"}

PrepareRelease ==
    /\ Len(ledger.canary) + Len(ledger.production) < MaxDeployments
    /\ \E type \in Kinds :
         ledger' = updateDeploymentRecord(IF ledgerExists THEN ledger ELSE EmptyLedger, type)
    /\ ledgerExists' = TRUE
    /\ UNCHANGED <<backups, live, outsideMD, mdVars>>

\* monitor-deployment.js, lines 31-71: options, lookup of the deployment
MdStart ==
    /\ mdPc \in {"idle", "exited"}
    /\ \E version \in MonitorVersions, opts \in MdOptions :
         LET record == IF ledgerExists THEN ledger ELSE EmptyLedger
             inCanary == findIndex(record.canary, version) # 0
             inProduction == findIndex(record.production, version) # 0
         IN /\ monitorVersion' = version
            /\ mdOptions' = opts
            /\ deploymentType' = IF ~inCanary /\ inProduction THEN "production"
                                 ELSE "canary"
            /\ mdNow' = 0
            /\ mdChecks' = <<>>
            /\ mdStatusLog' = IF inCanary THEN <<statusOf(record, "canary", version)>>
                              ELSE IF inProduction
                              THEN <<statusOf(record, "production", version)>>
                              ELSE <<>>
            /\ IF deploymentFound(inCanary, inProduction)
               THEN mdPc' = "running" /\ mdExit' = Running /\ mdErrors' = <<>>
               ELSE /\ mdPc' = "exited"
                    /\ mdExit' = 1
                    /\ mdErrors' = <<"deployment not found">>
    /\ UNCHANGED <<envVars, outsideMD>>

\* The setInterval callback, lines 197-225
monitoringInterval(metrics) ==
    LET now      == mdNow + 1
        led1     == updateDeploymentMetrics(ledger, deploymentType, monitorVersion, metrics)
        rollback == checkRollbackConditions(metrics, mdOptions.threshold)
        ended    == now >= mdOptions.ticks
        written(l) == statusOf(l, deploymentType, monitorVersion)
    IN
    /\ mdPc = "running"
    /\ mdNow' = now
    /\ mdChecks' = Append(mdChecks, rollback)
    /\ mdErrors' = mdErrors \o rollbackErrors(metrics, mdOptions.threshold,
                                              mdOptions.autoRollback)
    /\ IF rollback /\ mdOptions.autoRollback
       THEN LET led2 == performRollback(led1, deploymentType, monitorVersion)
            IN /\ ledger' = led2
               /\ mdStatusLog' = mdStatusLog \o <<written(led1), written(led2)>>
               /\ mdPc' = "exited"
               /\ mdExit' = 1
       ELSE IF ended
       THEN LET led2 == completeMonitoring(led1, deploymentType, monitorVersion)
            IN /\ ledger' = led2
               /\ mdStatusLog' = mdStatusLog \o <<written(led1), written(led2)>>
               /\ mdPc' = "exited"
               /\ mdExit' = 0
       ELSE /\ ledger' = led1
            /\ mdStatusLog' = Append(mdStatusLog, written(led1))
            /\ UNCHANGED <<mdPc, mdExit>>
    /\ UNCHANGED <<ledgerExists, backups, live, mdOptions, monitorVersion,
                   deploymentType, outsideMD>>

MdTick == \E metrics \in collectMetrics : monitoringInterval(metrics)

\* Variant of MdSigint that closes the deployment as successful on the way out
MdSigintCompletes ==
    /\ mdPc = "running"
    /\ mdPc' = "exited"
    /\ mdExit' = 0
    /\ ledger' = completeMonitoring(ledger, deploymentType, monitorVersion)
    /\ UNCHANGED <<ledgerExists, backups, live, outsideMD, mdOptions, monitorVersion,
                   deploymentType, mdNow, mdChecks, mdStatusLog, mdErrors>>

\* process.on('SIGINT'), lines 228-232
MdSigint ==
    /\ mdPc = "running"
    /\ mdPc' = "exited"
    /\ mdExit' = 0
    /\ UNCHANGED <<envVars, outsideMD, mdOptions, monitorVersion, deploymentType,
                   mdNow, mdChecks, mdStatusLog, mdErrors>>

ArIdle ==
    /\ options = [autoRollback |-> FALSE, dryRun |-> FALSE,
                  rollbackTo |-> NoVersion, datadogApiKey |-> FALSE]
    /\ arPc = "idle"
    /\ consecutiveFailures = 0
    /\ arNow = 0
    /\ reports = <<>>
    /\ initiatedAt = {}
    /\ notifications = <<>>
    /\ pendingTarget = NoBackup
    /\ backupCalls = 0
    /\ cloneCalls = <<>>
    /\ arLog = <<>>
    /\ arExit = Running

\* No ledger file yet; prepare-release and the deployment monitor run one
\* after the other (each ledger update is a single synchronous step).
InitMD ==
    /\ ledgerExists = FALSE
    /\ ledger = EmptyLedger
    /\ backups = {}
    /\ live = DeployedVersion
    /\ ArIdle
    /\ MdIdle
    /\ LwIdle
    /\ FnIdle
    /\ CmIdle
    /\ PcIdle
    /\ TkIdle
    /\ EqIdle
    /\ ShIdle

NextMD == PrepareRelease \/ MdStart \/ MdTick \/ MdSigint

SpecMD == InitMD /\ [][NextMD]_vars

(***************************************************************************)
(* Two processes updating the ledger: every update is readFileSync, a      *)
(* change of the parsed object, writeFileSync; another process can run     *)
(* between the read and the write.                                         *)
(***************************************************************************)
MaxLwJobs == 3         \* ledger updates started by the two processes together

\* prepare-release's push of a new record, or the deployment monitor's
\* metrics update of the released version of that kind
LwJobs == [op : {"create", "metrics"}, type : Kinds, errors : {1}]

jobMetrics(job) == CHOOSE m \in collectMetrics : m.errors = job.errors

applyJob(job, led) ==
    IF job.op = "create" THEN updateDeploymentRecord(led, job.type)
    ELSE updateDeploymentMetrics(led, job.type, releaseVersion(job.type), jobMetrics(job))

\* the metrics update writes only when it found its deployment (line 107)
jobWrites(job, led) ==
    job.op = "create" \/ findIndex(led[job.type], releaseVersion(job.type)) # 0

\* Variant of writtenLedger in which the file is parsed again at the write
writtenLedgerFresh(w) == applyJob(lwJob[w], ledger)

\* what writeFileSync puts into the file: the object parsed earlier, changed
writtenLedger(w) == applyJob(lwJob[w], lwSnap[w])

\* fs.readFileSync + JSON.parse (prepare-release starts from an empty record
\* when the file does not exist; the monitor only runs on an existing file)
LwRead(w) ==
    /\ lwPc[w] = "idle"
    /\ Len(lwDone) + Cardinality({v \in Writers : lwPc[v] = "read"}) < MaxLwJobs
    /\ \E job \in LwJobs :
         /\ job.op = "metrics" => ledgerExists
         /\ lwJob' = [lwJob EXCEPT ![w] = job]
    /\ lwSnap' = [lwSnap EXCEPT ![w] = IF ledgerExists THEN ledger ELSE EmptyLedger]
    /\ lwPc' = [lwPc EXCEPT ![w] = "read"]
    /\ UNCHANGED <<envVars, outsideLW, lwDone>>

\* the change of the parsed object and fs.writeFileSync
LwWrite(w) ==
    /\ lwPc[w] = "read"
    /\ IF jobWrites(lwJob[w], lwSnap[w])
       THEN ledger' = writtenLedger(w) /\ ledgerExists' = TRUE
       ELSE UNCHANGED <<ledger, ledgerExists>>
    /\ lwPc' = [lwPc EXCEPT ![w] = "idle"]
    /\ lwDone' = Append(lwDone, lwJob[w])
    /\ UNCHANGED <<backups, live, outsideLW, lwJob, lwSnap>>

InitLW ==
    /\ ledgerExists = FALSE
    /\ ledger = EmptyLedger
    /\ backups = {}
    /\ live = DeployedVersion
    /\ ArIdle
    /\ MdIdle
    /\ LwIdle
    /\ FnIdle
    /\ CmIdle
    /\ PcIdle
    /\ TkIdle
    /\ EqIdle
    /\ ShIdle

NextLW == \E w \in Writers : LwRead(w) \/ LwWrite(w)

SpecLW == InitLW /\ [][NextLW]_vars

(***************************************************************************)
(* evaluateMetrics of auto-rollback.js and of promote-canary.js as pure    *)
(* functions of the metric values and of options.thresholds                *)
(***************************************************************************)
\* --threshold-*: the defaults, or every threshold set to 0
ThresholdTables(names, defaults) == {defaults, [n \in names |-> 0]}

\* metric values around the default thresholds: null, the threshold, one
\* unit above (all of them above the thresholds of the zero table, except null)
MetricValues(names, th) ==
    { [n \in names |-> IF c[n] = "null" THEN Null
                       ELSE IF c[n] = "at" THEN th[n] ELSE th[n] + 1] :
        c \in [names -> {"null", "at", "above"}] }

\* config.minSampleSize of the canary monitor and of the production monitor
minSampleSize == [canary |-> 20, production |-> 50]

\* requests behind the aggregated values of one evaluation; neither
\* evaluateMetrics takes it as an input
SampleSizes(kind) == {0, minSampleSize[kind] - 1, minSampleSize[kind]}

EvCalls ==
    { [fn |-> "evaluateMetrics", script |-> "auto-rollback", names |-> MetricNames,
       thresholds |-> th, metrics |-> m, sampleSize |-> n] :
         th \in ThresholdTables(MetricNames, thresholds),
         m \in MetricValues(MetricNames, thresholds),
         n \in SampleSizes("production") }
    \cup
    { [fn |-> "evaluateMetrics", script |-> "promote-canary", names |-> CanaryMetricNames,
       thresholds |-> th, metrics |-> m, sampleSize |-> n] :
         th \in ThresholdTables(CanaryMetricNames, canaryThresholds),
         m \in MetricValues(CanaryMetricNames, canaryThresholds),
         n \in SampleSizes("canary") }

EvEvaluate ==
    /\ fnCall.fn = "evaluateMetrics"
    /\ ~fnResult.done
    /\ fnResult' = [done |-> TRUE,
                    value |-> evaluateAgainst(fnCall.names, fnCall.metrics,
                                              fnCall.thresholds)]
    /\ UNCHANGED <<envVars, outsideFN, fnCall>>

InitEV ==
    /\ ledgerExists = FALSE
    /\ ledger = EmptyLedger
    /\ backups = {}
    /\ live = DeployedVersion
    /\ ArIdle
    /\ MdIdle
    /\ LwIdle
    /\ fnCall \in EvCalls
    /\ fnResult = [done |-> FALSE]
    /\ CmIdle
    /\ PcIdle
    /\ TkIdle
    /\ EqIdle
    /\ ShIdle

NextEV == EvEvaluate

SpecEV == InitEV /\ [][NextEV]_vars

(***************************************************************************)
(* The canary deployment monitor: counters, shouldRollback, the            *)
(* monitoring loop and the decision at the end of the period               *)
(***************************************************************************)
MaxCmTicks == 7        \* loop iterations in one canary monitoring period

FastLatency == 100     \* a latency below both latency thresholds, in ms
SlowLatency == 600     \* a latency above config.p95LatencyThreshold, in ms

\* config, lines 224-237 (the error rate threshold 0.05 is 1/20)
config == [errorRateDivisor |-> 20, p95LatencyThreshold |-> 500,
           p99LatencyThreshold |-> 1000, cpuThreshold |-> 80,
           memoryThreshold |-> 80, minSampleSize |-> minSampleSize.canary]

\* checkEndpoint: what the callbacks of one probe add to the metrics object.
\* A response counts one request and its latency, and an error when the
\* status is not 200; an 'error' event counts one request and one error; the
\* timeout callback counts one request and one error and destroys the
\* request, after which the 'error' listener may run as well.
probeEffect(outcome) ==
    IF outcome = "200" THEN [requests |-> 1, errors |-> 0, fast |-> 1, slow |-> 0]
    ELSE IF outcome = "200 slow" THEN [requests |-> 1, errors |-> 0, fast |-> 0, slow |-> 1]
    ELSE IF outcome = "non200" THEN [requests |-> 1, errors |-> 1, fast |-> 1, slow |-> 0]
    ELSE IF outcome = "error" THEN [requests |-> 1, errors |-> 1, fast |-> 0, slow |-> 0]
    ELSE IF outcome = "timeout" THEN [requests |-> 1, errors |-> 1, fast |-> 0, slow |-> 0]
    ELSE \* "timeout, error"
         [requests |-> 2, errors |-> 2, fast |-> 0, slow |-> 0]

CmOutcomes == {"200", "200 slow", "non200", "error", "timeout", "timeout, error"}

\* the three probes of one iteration: at most one endpoint departs from a
\* quick 200
CmProbes ==
    { pr \in [Endpoints -> CmOutcomes] :
        Cardinality({e \in Endpoints : pr[e] # "200"}) <= 1 }

\* checkSystemResources: CPU and memory percentages of one iteration
CmResources == {[cpu |-> 50, memory |-> 50], [cpu |-> 90, memory |-> 50],
                [cpu |-> 50, memory |-> 90]}

RECURSIVE SumOver(_, _)
SumOver(f, S) ==
    IF S = {} THEN 0
    ELSE LET x == CHOOSE y \in S : TRUE IN f[x] + SumOver(f, S \ {x})

\* the metrics object after the probes of one iteration and checkSystemResources
recordChecks(m, probes, res) ==
    LET add(field) == SumOver([e \in Endpoints |-> probeEffect(probes[e])[field]], Endpoints)
    IN [requests |-> m.requests + add("requests"),
        errors |-> m.errors + add("errors"),
        fast |-> m.fast + add("fast"),
        slow |-> m.slow + add("slow"),
        cpuSum |-> m.cpuSum + res.cpu,
        memSum |-> m.memSum + res.memory,
        resourceSamples |-> m.resourceSamples + 1]

\* calculatePercentile over the latencies: sorted[Math.ceil(p / 100 * n) - 1],
\* 0 for an empty array; the sorted array is m.fast quick values, then m.slow
canaryPercentile(m, p) ==
    LET n     == m.fast + m.slow
        index == ((p * n + 99) \div 100) - 1
    IN IF n = 0 THEN 0
       ELSE IF index < m.fast THEN FastLatency ELSE SlowLatency

shouldRollback(m) ==
    /\ ~(m.requests < config.minSampleSize)
    /\ \/ m.errors * config.errorRateDivisor > m.requests
       \/ canaryPercentile(m, 95) > config.p95LatencyThreshold
       \/ canaryPercentile(m, 99) > config.p99LatencyThreshold
       \/ m.cpuSum > config.cpuThreshold * m.resourceSamples
       \/ m.memSum > config.memoryThreshold * m.resourceSamples

\* Lines 546-555: no error at all, an error rate of at most half the
\* threshold, or a rollback
finalDecision(m) ==
    IF m.errors = 0 THEN "success"
    ELSE IF m.errors * 2 * config.errorRateDivisor <= m.requests THEN "warning"
    ELSE "rollback"

\* one iteration of the loop of monitorCanary, lines 515-541
monitorCanaryLoop(probes, res) ==
    LET m == recordChecks(cmMetrics, probes, res)
    IN /\ cmPc = "loop"
       /\ cmNow < cmDuration
       /\ cmMetrics' = m
       /\ IF shouldRollback(m)
          THEN /\ cmRollbacks' = cmRollbacks + 1
               /\ cmOutcome' = "rollback: thresholds exceeded"
               /\ cmPc' = "exited"
               /\ cmExit' = 1
               /\ UNCHANGED cmNow
          ELSE /\ cmNow' = cmNow + 1
               /\ UNCHANGED <<cmRollbacks, cmOutcome, cmPc, cmExit>>
       /\ UNCHANGED <<envVars, outsideCM, cmDuration>>

CmTick == \E probes \in CmProbes, res \in CmResources : monitorCanaryLoop(probes, res)

\* after the loop, lines 543-556
CmFinish ==
    /\ cmPc = "loop"
    /\ cmNow >= cmDuration
    /\ cmPc' = "exited"
    /\ IF finalDecision(cmMetrics) = "rollback"
       THEN /\ cmRollbacks' = cmRollbacks + 1
            /\ cmOutcome' = "rollback: high error rate"
            /\ cmExit' = 1
       ELSE /\ cmOutcome' = finalDecision(cmMetrics)
            /\ cmExit' = 0
            /\ UNCHANGED cmRollbacks
    /\ UNCHANGED <<envVars, outsideCM, cmDuration, cmNow, cmMetrics>>

InitCM ==
    /\ ledgerExists = FALSE
    /\ ledger = EmptyLedger
    /\ backups = {}
    /\ live = DeployedVersion
    /\ ArIdle
    /\ MdIdle
    /\ LwIdle
    /\ FnIdle
    /\ cmPc = "loop"
    /\ cmDuration \in 1..MaxCmTicks
    /\ cmNow = 0
    /\ cmMetrics = NoMetrics
    /\ cmRollbacks = 0
    /\ cmOutcome = "none"
    /\ cmExit = Running
    /\ PcIdle
    /\ TkIdle
    /\ EqIdle
    /\ ShIdle

NextCM == CmTick \/ CmFinish

SpecCM == InitCM /\ [][NextCM]_vars

(***************************************************************************)
(* One endpoint probe, as each of the three monitors classifies it         *)
(***************************************************************************)
MaxCount == 2          \* largest counter value a probe starts from

StatusCodes == {200, 201, 204, 301, 404, 500, 503}

\* what the request of one probe ends with: a response with a status code,
\* an 'error' event, the timeout callback, or the timeout callback followed
\* by the 'error' event of the destroyed request
Responses ==
    { [kind |-> "status", status |-> s] : s \in StatusCodes }
    \cup { [kind |-> k, status |-> Null] : k \in {"error", "timeout", "timeout, error"} }

\* res.statusCode !== 200 in the checkEndpoint of both monitors
monitorOutcome(response) ==
    IF response.kind # "status" THEN response.kind
    ELSE IF response.status # 200 THEN "non200"
    ELSE "200"

\* res.statusCode >= 200 && res.statusCode < 300 in checkEndpoints
statusClass(response) ==
    IF response.kind # "status" THEN "error"
    ELSE IF response.status >= 200 /\ response.status < 300 THEN "2xx"
    ELSE "non2xx"

\* checkEndpoint of the canary and the production monitor: the value the
\* promise resolves with and the counters afterwards
checkEndpoint(response, counters) ==
    LET effect == probeEffect(monitorOutcome(response))
    IN [success |-> monitorOutcome(response) = "200",
        requests |-> counters.requests + effect.requests,
        errors |-> counters.errors + effect.errors]

\* checkEndpoints of auto-rollback.js keeps no counters
checkEndpointsResult(response, counters) ==
    [success |-> probeSuccess(statusClass(response)),
     requests |-> counters.requests,
     errors |-> counters.errors]

Counters ==
    { [requests |-> r, errors |-> x] : r \in 0..MaxCount, x \in 0..MaxCount }

PbCalls ==
    { [fn |-> "checkEndpoint", script |-> s, response |-> r, counters |-> c] :
         s \in {"canary-monitor", "production-monitor"}, r \in Responses,
         c \in {k \in Counters : k.errors <= k.requests} }
    \cup
    { [fn |-> "checkEndpoints", script |-> "auto-rollback", response |-> r,
       counters |-> [requests |-> 0, errors |-> 0]] : r \in Responses }

PbMonitorProbe ==
    /\ fnCall.fn = "checkEndpoint"
    /\ ~fnResult.done
    /\ fnResult' = [done |-> TRUE,
                    value |-> checkEndpoint(fnCall.response, fnCall.counters)]
    /\ UNCHANGED <<envVars, outsideFN, fnCall>>

PbRollbackProbe ==
    /\ fnCall.fn = "checkEndpoints"
    /\ ~fnResult.done
    /\ fnResult' = [done |-> TRUE,
                    value |-> checkEndpointsResult(fnCall.response, fnCall.counters)]
    /\ UNCHANGED <<envVars, outsideFN, fnCall>>

InitPB ==
    /\ ledgerExists = FALSE
    /\ ledger = EmptyLedger
    /\ backups = {}
    /\ live = DeployedVersion
    /\ ArIdle
    /\ MdIdle
    /\ LwIdle
    /\ fnCall \in PbCalls
    /\ fnResult = [done |-> FALSE]
    /\ CmIdle
    /\ PcIdle
    /\ TkIdle
    /\ EqIdle
    /\ ShIdle

NextPB == PbMonitorProbe \/ PbRollbackProbe

SpecPB == InitPB /\ [][NextPB]_vars

(***************************************************************************)
(* auto-rollback.js: one loop iteration step by step. A step is what runs  *)
(* between two awaits: checkEndpoints awaits each request in its for loop, *)
(* getMetricsFromDatadog awaits each fetch, monitorDeployment awaits both  *)
(* functions, the confirmation and the wait for the next check.            *)
(***************************************************************************)
RECURSIVE SumSeq(_)
SumSeq(array) == IF array = <<>> THEN 0 ELSE Head(array) + SumSeq(Tail(array))

\* response.series[0].pointlist.map(point => point[1]).filter(value => value !== null)
NonNullPoints(points) == SelectSeq(points, LAMBDA v : v # Null)

\* lines 219-233: the mean of the non-null points, null without any
\* (the sample series have whole-numbered means)
meanOfPoints(points) ==
    LET values == NonNullPoints(points)
    IN IF Len(points) > 0 /\ Len(values) > 0
       THEN SumSeq(values) \div Len(values) ELSE Null

\* lines 191-198: the object literal bound to the inner `const options` reads
\* options.datadogApiKey, that is the inner binding before its initialisation
requestOptions == "ReferenceError"

\* one pass of the for loop of getMetricsFromDatadog: the promise executor
\* throws before the request is created, the await throws into the catch
\* block and the metric is recorded as null
fetchMetric(points) ==
    IF requestOptions = "ReferenceError" THEN Null ELSE meanOfPoints(points)

\* points all within the threshold, one of them null
HealthySeries == [n \in MetricNames |-> <<thresholds[n] - 2, Null, thresholds[n]>>]

\* what the backend holds for one check: healthy series, or none for errorRate
DatadogSeries == {HealthySeries, [HealthySeries EXCEPT !["errorRate"] = <<>>]}

IndexOf(seq, x) == CHOOSE i \in 1..Len(seq) : seq[i] = x

TkProbing == \E e \in Endpoints : tkProbes[e] = "outstanding"

TkFetching == \E n \in MetricNames : tkFetch[n] = "pending"

\* the iteration begun last has not yet reached its evaluation
TkCollecting == tkTick > Len(reports)

\* Variant of tickMayStart for a timer that fires whatever the loop is doing
tickMayStartAnytime == arPc # "exited" /\ arNow < MaxTicks

\* while (Date.now() < endTime) is reached at the start and after the awaited
\* wait of the previous iteration only
tickMayStart == arPc = "loop" /\ ~TkCollecting /\ arNow < MaxTicks

\* Lines 499-504 and 427-450: the iteration starts and checkEndpoints sends
\* the request of the first endpoint
TkBegin ==
    /\ tickMayStart
    /\ tkTick' = tkTick + 1
    /\ tkProbes' = [e \in Endpoints |->
                      IF e = EndpointOrder[1] THEN "outstanding" ELSE "notIssued"]
    /\ tkFetch' = [n \in MetricNames |-> "notFetched"]
    /\ tkMetrics' = [n \in MetricNames |-> Null]
    /\ tkSeries' = [n \in MetricNames |-> <<>>]
    /\ UNCHANGED <<envVars, arVars, mdVars, lwVars, fnVars, cmVars, pcVars, eqRun, shVars>>

\* Variant of afterProbe that gives up the remaining endpoints after a failure
afterProbeStopOnFailure(probes, e, outcome) ==
    LET settled == [probes EXCEPT ![e] = outcome]
        i       == IndexOf(EndpointOrder, e)
    IN IF i = Len(EndpointOrder) \/ ~probeSuccess(outcome) THEN settled
       ELSE [settled EXCEPT ![EndpointOrder[i + 1]] = "outstanding"]

\* Lines 427-470: the awaited request of endpoint e settles (response, 'error'
\* or timeout), its result is stored inside the try/catch and the for loop
\* sends the request of the next endpoint
afterProbe(probes, e, outcome) ==
    LET settled == [probes EXCEPT ![e] = outcome]
        i       == IndexOf(EndpointOrder, e)
    IN IF i = Len(EndpointOrder) THEN settled
       ELSE [settled EXCEPT ![EndpointOrder[i + 1]] = "outstanding"]

TkProbeSettles ==
    /\ \E e \in Endpoints, outcome \in ProbeOutcomes :
         /\ tkProbes[e] = "outstanding"
         /\ tkProbes' = afterProbe(tkProbes, e, outcome)
    /\ UNCHANGED <<tkTick, tkFetch, tkMetrics, tkSeries>>
    /\ UNCHANGED <<envVars, arVars, mdVars, lwVars, fnVars, cmVars, pcVars, eqRun, shVars>>

\* Lines 507-509 and 186-190: with a Datadog key, monitorDeployment resumes
\* after checkEndpoints and getMetricsFromDatadog starts its first fetch
TkFetchStart ==
    /\ options.datadogApiKey
    /\ TkCollecting
    /\ ~TkProbing
    /\ \A n \in MetricNames : tkFetch[n] = "notFetched"
    /\ tkFetch' = [tkFetch EXCEPT ![MetricOrder[1]] = "pending"]
    /\ tkSeries' \in DatadogSeries
    /\ UNCHANGED <<tkTick, tkProbes, tkMetrics>>
    /\ UNCHANGED <<envVars, arVars, mdVars, lwVars, fnVars, cmVars, pcVars, eqRun, shVars>>

\* Lines 186-237: the awaited fetch of metric n settles; the catch block
\* records null and the for loop goes on to the next metric
afterFetch(fetch, n, value) ==
    LET recorded == [fetch EXCEPT ![n] = "recorded"]
        i        == IndexOf(MetricOrder, n)
    IN IF i = Len(MetricOrder) THEN recorded
       ELSE [recorded EXCEPT ![MetricOrder[i + 1]] = "pending"]

TkFetchSettles ==
    /\ \E n \in MetricNames, m \in getMetricsFromDatadog :
         /\ tkFetch[n] = "pending"
         /\ m[n] = fetchMetric(tkSeries[n])
         /\ tkMetrics' = [tkMetrics EXCEPT ![n] = m[n]]
         /\ tkFetch' = afterFetch(tkFetch, n, m[n])
    /\ UNCHANGED <<tkTick, tkProbes, tkSeries>>
    /\ UNCHANGED <<envVars, arVars, mdVars, lwVars, fnVars, cmVars, pcVars, eqRun, shVars>>

\* the results object checkEndpoints returns: an endpoint whose request was
\* never sent has no entry
TkHealthInput == [e \in Endpoints |-> tkProbes[e]]

\* Lines 507-616: monitorDeployment resumes with the health check and the
\* metrics (simulated ones are produced here) and runs to its next await
TkEvaluate ==
    /\ TkCollecting
    /\ ~TkProbing
    /\ ~TkFetching
    /\ options.datadogApiKey => \E n \in MetricNames : tkFetch[n] = "recorded"
    /\ \E metrics \in (IF options.datadogApiKey THEN {tkMetrics} ELSE simulateMetrics) :
         monitorDeploymentTick(TkHealthInput, metrics)

InitTK ==
    /\ ledgerExists = TRUE
    /\ ledger = LedgerAR
    /\ backups \in {bs \in InitBackups : Cardinality(bs) = 1}
    /\ live = DeployedVersion
    /\ options \in {o \in ArOptions : o.rollbackTo = NoVersion}
    /\ arPc = "loop"
    /\ consecutiveFailures = 0
    /\ arNow = 0
    /\ reports = <<>>
    /\ initiatedAt = {}
    /\ notifications = <<"start">>
    /\ pendingTarget = NoBackup
    /\ backupCalls = 0
    /\ cloneCalls = <<>>
    /\ arLog = <<>>
    /\ arExit = Running
    /\ MdIdle
    /\ LwIdle
    /\ FnIdle
    /\ CmIdle
    /\ PcIdle
    /\ TkIdle
    /\ EqIdle
    /\ ShIdle

NextTK == TkBegin \/ TkProbeSettles \/ TkFetchStart \/ TkFetchSettles \/ TkEvaluate
          \/ ArConfirm \/ ArFinish

SpecTK == InitTK /\ [][NextTK]_vars

(***************************************************************************)
(* auto-rollback.js run twice on the same probe outcomes, metric values    *)
(* and operator answers: once live, once with --dry-run                    *)
(***************************************************************************)
twinDryRun(t) == t = "dry"

\* Variant of rollbackEndsLoop that leaves the loop after a success only
rollbackEndsLoopOnSuccess(success) == success

\* lines 583-595: break after a successful and after a failed rollback
rollbackEndsLoop(success) == TRUE

\* rollbackToVersion (lines 371-394) and the branch of lines 583-595
twinRollback(run, dryRun, backupOk, cloneOk) ==
    LET success == dryRun \/ (backupOk /\ cloneOk)
        called  == [run EXCEPT
                      !.backupCalls = IF dryRun THEN @ ELSE @ + 1,
                      !.cloneCalls = IF ~dryRun /\ backupOk THEN @ + 1 ELSE @]
    IN IF rollbackEndsLoop(success) THEN [called EXCEPT !.pc = "exited"]
       ELSE [called EXCEPT !.pc = "loop", !.now = @ + 1]

\* one iteration of the loop (lines 499-616) up to its next await
twinTick(run, dryRun, probes, metrics, target, backupOk, cloneOk) ==
    LET pass     == evaluateMetrics(metrics).pass /\ checkEndpoints(probes).pass
        failures == counterAfter(run.failures, pass)
        tick     == Len(run.evaluations) + 1
        checked  == [run EXCEPT !.evaluations = Append(@, pass),
                                !.failures = failures,
                                !.counters = Append(@, failures)]
    IN IF ~pass /\ escalates(failures)
       THEN LET initiated == [checked EXCEPT !.initiated = @ \cup {tick}]
            IN IF noRollbackVersion(target) THEN [initiated EXCEPT !.pc = "exited"]
               ELSE IF askForConfirmationNeedsOperator
               THEN [initiated EXCEPT !.pc = "confirm"]
               ELSE twinRollback(initiated, dryRun, backupOk, cloneOk)
       ELSE [checked EXCEPT !.now = @ + 1]

\* askForConfirmation resolves (lines 581-601)
twinConfirm(run, dryRun, confirmed, backupOk, cloneOk) ==
    IF confirmed THEN twinRollback(run, dryRun, backupOk, cloneOk)
    ELSE [run EXCEPT !.pc = "loop", !.now = @ + 1,
                     !.failures = counterAfterDecline(@),
                     !.counters = Append(@, counterAfterDecline(run.failures))]

\* what the rollback of the live execution leaves on the hosting side
twinEnvironment(before, after, target, backupOk, cloneOk) ==
    /\ backups' = IF after.backupCalls > before.backupCalls /\ backupOk
                  THEN backups \cup {newBackup(backups, live)} ELSE backups
    /\ live' = IF after.cloneCalls > before.cloneCalls /\ cloneOk
               THEN target.versionId ELSE live

\* the probe outcomes of one check: at most one endpoint fails
EqProbes ==
    { pr \in [Endpoints -> ProbeOutcomes] :
        Cardinality({e \in Endpoints : ~probeSuccess(pr[e])}) <= 1 }

\* both executions are given the same probe outcomes and metric values
EqTick ==
    /\ \E t \in Twins : eqRun[t].pc = "loop" /\ eqRun[t].now < MaxTicks
    /\ \E probes \in EqProbes, metrics \in MetricsSource,
          backupOk, cloneOk \in BOOLEAN :
         LET target == rollbackTarget(backups)
             next == [t \in Twins |->
                        IF eqRun[t].pc = "loop" /\ eqRun[t].now < MaxTicks
                        THEN twinTick(eqRun[t], twinDryRun(t), probes, metrics,
                                      target, backupOk, cloneOk)
                        ELSE eqRun[t]]
         IN /\ eqRun' = next
            /\ twinEnvironment(eqRun["live"], next["live"], target, backupOk, cloneOk)
    /\ UNCHANGED <<ledgerExists, ledger, arVars, mdVars, lwVars, fnVars, cmVars,
                   pcVars, tkVars, shVars>>

\* both executions are given the same answer
EqConfirm ==
    /\ \E t \in Twins : eqRun[t].pc = "confirm"
    /\ \E confirmed, backupOk, cloneOk \in BOOLEAN :
         LET target == rollbackTarget(backups)
             next == [t \in Twins |->
                        IF eqRun[t].pc = "confirm"
                        THEN twinConfirm(eqRun[t], twinDryRun(t), confirmed,
                                         backupOk, cloneOk)
                        ELSE eqRun[t]]
         IN /\ eqRun' = next
            /\ twinEnvironment(eqRun["live"], next["live"], target, backupOk, cloneOk)
    /\ UNCHANGED <<ledgerExists, ledger, arVars, mdVars, lwVars, fnVars, cmVars,
                   pcVars, tkVars, shVars>>

\* lines 499 and 618-623: the monitoring period has elapsed
EqFinish ==
    /\ \E t \in Twins : eqRun[t].pc = "loop" /\ eqRun[t].now >= MaxTicks
    /\ eqRun' = [t \in Twins |->
                   IF eqRun[t].pc = "loop" /\ eqRun[t].now >= MaxTicks
                   THEN [eqRun[t] EXCEPT !.pc = "exited"] ELSE eqRun[t]]
    /\ UNCHANGED <<envVars, arVars, mdVars, lwVars, fnVars, cmVars, pcVars, tkVars, shVars>>

\* the command line without --dry-run, which only the second execution adds
InitEQ ==
    /\ ledgerExists = TRUE
    /\ ledger = LedgerAR
    /\ backups \in InitBackups
    /\ live = DeployedVersion
    /\ options \in {o \in ArOptions : ~o.dryRun}
    /\ arPc = "idle"
    /\ consecutiveFailures = 0
    /\ arNow = 0
    /\ reports = <<>>
    /\ initiatedAt = {}
    /\ notifications = <<>>
    /\ pendingTarget = NoBackup
    /\ backupCalls = 0
    /\ cloneCalls = <<>>
    /\ arLog = <<>>
    /\ arExit = Running
    /\ MdIdle
    /\ LwIdle
    /\ FnIdle
    /\ CmIdle
    /\ PcIdle
    /\ TkIdle
    /\ ShIdle
    /\ eqRun = [t \in Twins |-> [NoRun EXCEPT !.pc = "loop"]]

NextEQ == EqTick \/ EqConfirm \/ EqFinish

SpecEQ == InitEQ /\ [][NextEQ]_vars

(***************************************************************************)
(* calculatePercentile and calculateAverage of the canary and the          *)
(* production monitor                                                      *)
(***************************************************************************)
MaxSamples == 3        \* longest array handed to the helper functions

Undefined == -2        \* JavaScript undefined: an array read outside 0..length-1

SampleValues == {100, 300, 600}      \* latencies in ms

Percentiles == {0, 1, 50, 95, 99, 100}

SampleArrays == UNION { [1..n -> SampleValues] : n \in 0..MaxSamples }

RECURSIVE Insert(_, _)
Insert(sorted, x) ==
    IF sorted = <<>> THEN <<x>>
    ELSE IF x - Head(sorted) < 0 THEN <<x>> \o sorted
    ELSE <<Head(sorted)>> \o Insert(Tail(sorted), x)

\* [...array].sort((a, b) => a - b)
RECURSIVE SortAscending(_)
SortAscending(array) ==
    IF array = <<>> THEN <<>>
    ELSE Insert(SortAscending(Tail(array)), Head(array))

\* sorted[index] of a JavaScript array (index counted from 0)
ArrayRead(array, index) ==
    IF index >= 0 /\ index < Len(array) THEN array[index + 1] ELSE Undefined

\* Math.ceil(percentile / 100 * length) for integers percentile, length >= 0
CeilPercent(percentile, length) == (percentile * length + 99) \div 100

\* Variant of calculatePercentile without the test for the empty array
calculatePercentileUnguarded(array, percentile) ==
    LET sorted == SortAscending(array)
        index  == CeilPercent(percentile, Len(sorted)) - 1
    IN ArrayRead(sorted, index)

calculatePercentile(array, percentile) ==
    IF Len(array) = 0 THEN 0
    ELSE LET sorted == SortAscending(array)
             index  == CeilPercent(percentile, Len(sorted)) - 1
         IN ArrayRead(sorted, index)

\* the quotient sum / length is kept as numerator and denominator
calculateAverage(array) ==
    IF Len(array) = 0 THEN [num |-> 0, den |-> 1]
    ELSE [num |-> SumSeq(array), den |-> Len(array)]

MonitorScripts == {"canary-monitor", "production-monitor"}

PfCalls ==
    { [fn |-> "calculatePercentile", script |-> s, array |-> a, percentile |-> p] :
         s \in MonitorScripts, a \in SampleArrays, p \in Percentiles }
    \cup
    { [fn |-> "calculateAverage", script |-> s, array |-> a, percentile |-> 0] :
         s \in MonitorScripts, a \in SampleArrays }

PfPercentile ==
    /\ fnCall.fn = "calculatePercentile"
    /\ ~fnResult.done
    /\ fnResult' = [done |-> TRUE,
                    value |-> calculatePercentile(fnCall.array, fnCall.percentile)]
    /\ UNCHANGED <<envVars, outsideFN, fnCall>>

PfAverage ==
    /\ fnCall.fn = "calculateAverage"
    /\ ~fnResult.done
    /\ fnResult' = [done |-> TRUE, value |-> calculateAverage(fnCall.array)]
    /\ UNCHANGED <<envVars, outsideFN, fnCall>>

InitPF ==
    /\ ledgerExists = FALSE
    /\ ledger = EmptyLedger
    /\ backups = {}
    /\ live = DeployedVersion
    /\ ArIdle
    /\ MdIdle
    /\ LwIdle
    /\ fnCall \in PfCalls
    /\ fnResult = [done |-> FALSE]
    /\ CmIdle
    /\ PcIdle
    /\ TkIdle
    /\ EqIdle
    /\ ShIdle

NextPF == PfPercentile \/ PfAverage

SpecPF == InitPF /\ [][NextPF]_vars

(***************************************************************************)
(* deploy-canary.sh: monitor_deployment and what the script does with its  *)
(* return value                                                            *)
(***************************************************************************)
MaxShTicks == 9        \* check intervals in one monitoring period of the script

\* $(echo "scale=2; $errors / $checks" | bc -l): bc cuts the quotient off
\* after two decimals; the value is kept in hundredths
bcQuotient(errors, checks) == (errors * 100) \div checks

\* [ $checks -gt 10 ] && [ $(echo "scale=2; $errors / $checks > 0.1" | bc -l) -eq 1 ]
shLoopRollback(errors, checks) == checks > 10 /\ bcQuotient(errors, checks) > 10

\* lines 75-84: the return of monitor_deployment after the loop
shFinalDecision(errors, checks) ==
    IF errors = 0 THEN "success"
    ELSE IF bcQuotient(errors, checks) <= 5 THEN "warning"
    ELSE "rollback"

\* the script after monitor_deployment returned 0: the canary is stable and,
\* at 100 % traffic, cloned to live (a failing clone ends the script with 1)
shStable(promoteOk) ==
    /\ live' = IF shOptions.percentage = 100 /\ promoteOk THEN DeployedVersion ELSE live
    /\ shExit' = IF shOptions.percentage = 100 /\ ~promoteOk THEN 1 ELSE 0

\* the script after monitor_deployment returned 1: all traffic goes back to
\* live and the script exits with 1
shRolledBack ==
    /\ live' = live
    /\ shExit' = 1

\* one pass of the while loop of monitor_deployment, lines 46-73
ShTick ==
    /\ shPc = "loop"
    /\ shNow < shOptions.duration
    /\ \E healthOk, apiOk \in BOOLEAN :
         LET errors == shErrors + (IF healthOk THEN 0 ELSE 1) + (IF apiOk THEN 0 ELSE 1)
             checks == shChecks + 2
         IN /\ shErrors' = errors
            /\ shChecks' = checks
            /\ IF shLoopRollback(errors, checks)
               THEN /\ shOutcome' = "rollback: threshold exceeded"
                    /\ shPc' = "exited"
                    /\ shRolledBack
                    /\ UNCHANGED shNow
               ELSE /\ shNow' = shNow + 1
                    /\ UNCHANGED <<shOutcome, shPc, shExit, live>>
    /\ UNCHANGED <<ledgerExists, ledger, backups, shOptions>>
    /\ UNCHANGED <<arVars, mdVars, lwVars, fnVars, cmVars, pcVars, tkVars, eqRun>>

\* the loop is left because the monitoring duration has passed, lines 75-84
\* and 117-139
ShFinish ==
    /\ shPc = "loop"
    /\ shNow >= shOptions.duration
    /\ shPc' = "exited"
    /\ IF shFinalDecision(shErrors, shChecks) = "rollback"
       THEN /\ shOutcome' = "rollback: high error rate"
            /\ shRolledBack
       ELSE /\ shOutcome' = shFinalDecision(shErrors, shChecks)
            /\ \E promoteOk \in BOOLEAN : shStable(promoteOk)
    /\ UNCHANGED <<ledgerExists, ledger, backups, shOptions, shNow, shErrors, shChecks>>
    /\ UNCHANGED <<arVars, mdVars, lwVars, fnVars, cmVars, pcVars, tkVars, eqRun>>

\* the script has built, deployed the canary channel and shifted the traffic
InitSH ==
    /\ ledgerExists = FALSE
    /\ ledger = EmptyLedger
    /\ backups = {}
    /\ live = ProductionVersion
    /\ ArIdle
    /\ MdIdle
    /\ LwIdle
    /\ FnIdle
    /\ CmIdle
    /\ PcIdle
    /\ TkIdle
    /\ EqIdle
    /\ shPc = "loop"
    /\ shOptions \in [percentage : {10, 100}, duration : 1..MaxShTicks]
    /\ shNow = 0
    /\ shErrors = 0
    /\ shChecks = 0
    /\ shOutcome = "none"
    /\ shExit = Running

NextSH == ShTick \/ ShFinish

SpecSH == InitSH /\ [][NextSH]_vars

(***************************************************************************)
(* promote-canary.js: main, the confirmation and promoteCanaryToProduction *)
(***************************************************************************)
CanaryDeployment(status) ==
    [version |-> "1.0.1-canary.1", date |-> 1, status |-> status,
     metrics |-> [errors |-> Null, performance |-> Null, userSatisfaction |-> Null]]

\* the canary under evaluation, as recorded by prepare-release and the monitor
LedgerPC == [canary |-> <<CanaryDeployment("monitoring")>>, production |-> <<>>]

\* --traffic-percentage: not given (auto-detect), 0 or 10
PcOptions == [autoPromote : BOOLEAN, dryRun : BOOLEAN, datadogApiKey : BOOLEAN,
              trafficPercentage : {Null, 0, 10}]

\* detectCanaryTraffic: the traffic of the canary release, 0 when none is found
detectCanaryTraffic == {0, 10}

\* simulateMetrics of promote-canary.js: every value is a number on either
\* side of its threshold; sampled as all at the threshold, or one metric above
canarySimulateMetrics ==
    { [n \in CanaryMetricNames |->
          IF n \in bad THEN canaryThresholds[n] + 1 ELSE canaryThresholds[n]] :
        bad \in {{}} \cup { {m} : m \in CanaryMetricNames } }

\* getMetricsFromDatadog of promote-canary.js: as in auto-rollback.js the
\* request options read the inner `options` before its initialisation, each
\* fetch throws inside its try block and the metric is recorded as null
canaryGetMetricsFromDatadog == { [n \in CanaryMetricNames |-> Null] }

PcMetricsSource == IF pcOptions.datadogApiKey THEN canaryGetMetricsFromDatadog
                   ELSE canarySimulateMetrics

\* the report written to canary-evaluation-*.json
evaluationReport(evaluation, result) ==
    [result |-> result,
     metrics |-> [n \in CanaryMetricNames |-> evaluation.details[n].pass]]

\* Variant of promotionAllowed that promotes whatever the evaluation says
promotionAllowedAlways(evaluation) == TRUE

\* if (evaluation.pass), line 448
promotionAllowed(evaluation) == evaluation.pass

\* Variant of promotionExit: a failed promotion ends like a normal run
promotionExitAlwaysZero(success) == 0

\* process.exit(1) after a failed promotion (line 478), else main returns
promotionExit(success) == IF success THEN 0 ELSE 1

\* Variant of promoteAndReport whose clone does not depend on the backup
promoteAndReportBackupIgnored(notes, trace, canaryFound, backupOk, cloneOk) ==
    LET live_run == ~pcOptions.dryRun /\ canaryFound
        success  == pcOptions.dryRun \/ (canaryFound /\ cloneOk)
    IN /\ pcBackupCalls' = IF live_run THEN pcBackupCalls + 1 ELSE pcBackupCalls
       /\ backups' = IF live_run /\ backupOk
                     THEN backups \cup {newBackup(backups, live)} ELSE backups
       /\ pcCloneCalls' = IF live_run THEN Append(pcCloneCalls, DeployedVersion)
                          ELSE pcCloneCalls
       /\ live' = IF live_run /\ cloneOk THEN DeployedVersion ELSE live
       /\ pcTrace' = trace \o (IF live_run THEN <<"backup", "clone">> ELSE <<>>)
       /\ pcNotifications' = Append(notes, IF success THEN "promoted"
                                           ELSE "promotion_failed")
       /\ pcPc' = "exited"
       /\ pcExit' = promotionExit(success)

\* promoteCanaryToProduction (lines 311-353) and what main does with its
\* result (lines 470-479). Dry run: nothing is called. Otherwise the version
\* list is searched for the active canary (none: false), the backup script
\* runs, then the clone; a throwing execSync ends it with false.
promoteAndReport(notes, trace, canaryFound, backupOk, cloneOk) ==
    LET live_run == ~pcOptions.dryRun /\ canaryFound
        success  == pcOptions.dryRun \/ (canaryFound /\ backupOk /\ cloneOk)
    IN /\ pcBackupCalls' = IF live_run THEN pcBackupCalls + 1 ELSE pcBackupCalls
       /\ backups' = IF live_run /\ backupOk
                     THEN backups \cup {newBackup(backups, live)} ELSE backups
       /\ pcCloneCalls' = IF live_run /\ backupOk
                          THEN Append(pcCloneCalls, DeployedVersion) ELSE pcCloneCalls
       /\ live' = IF live_run /\ backupOk /\ cloneOk THEN DeployedVersion ELSE live
       /\ pcTrace' = trace \o (IF ~live_run THEN <<>>
                               ELSE IF backupOk THEN <<"backup", "clone">>
                               ELSE <<"backup">>)
       /\ pcNotifications' = Append(notes, IF success THEN "promoted"
                                           ELSE "promotion_failed")
       /\ pcPc' = "exited"
       /\ pcExit' = promotionExit(success)

\* main, lines 414-504, up to the prompt (or to the end when nothing is asked)
promoteMain(detected, metrics) ==
    LET traffic == IF pcOptions.trafficPercentage = Null THEN detected
                   ELSE pcOptions.trafficPercentage
        evaluation == canaryEvaluateMetrics(metrics)
        started == Append(pcNotifications, "start")     \* line 419
    IN
    /\ pcPc = "start"
    /\ pcOptions' = [pcOptions EXCEPT !.trafficPercentage = traffic]
    /\ UNCHANGED <<ledgerExists, ledger, outsidePC>>
    /\ IF traffic <= 0
       THEN /\ pcNotifications' = Append(started, "no_canary")
            /\ pcPc' = "exited"
            /\ pcExit' = 1
            /\ UNCHANGED <<pcReports, pcTrace, pcBackupCalls, pcCloneCalls, backups, live>>
       ELSE IF promotionAllowed(evaluation)
       THEN /\ pcReports' = Append(pcReports, evaluationReport(evaluation, "PASS"))
            /\ IF pcOptions.autoPromote
               THEN \E canaryFound, backupOk, cloneOk \in BOOLEAN :
                       promoteAndReport(started, pcTrace, canaryFound,
                                        backupOk, cloneOk)
               ELSE /\ pcPc' = "confirm"
                    /\ pcTrace' = Append(pcTrace, "confirmation")
                    /\ pcNotifications' = started
                    /\ UNCHANGED <<pcBackupCalls, pcCloneCalls, pcExit, backups, live>>
       ELSE /\ pcReports' = Append(pcReports, evaluationReport(evaluation, "FAIL"))
            /\ pcNotifications' = Append(started, "criteria_not_met")
            /\ pcPc' = "exited"
            /\ pcExit' = 0
            /\ UNCHANGED <<pcTrace, pcBackupCalls, pcCloneCalls, backups, live>>

PcMain ==
    \E detected \in detectCanaryTraffic, metrics \in PcMetricsSource :
        promoteMain(detected, metrics)

\* askForConfirmation resolves with the operator's answer (lines 466-483)
PcConfirm ==
    /\ pcPc = "confirm"
    /\ UNCHANGED <<ledgerExists, ledger, outsidePC, pcOptions, pcReports>>
    /\ \E confirmed \in BOOLEAN :
         IF confirmed
         THEN \E canaryFound, backupOk, cloneOk \in BOOLEAN :
                 promoteAndReport(pcNotifications, pcTrace, canaryFound, backupOk, cloneOk)
         ELSE /\ pcNotifications' = Append(pcNotifications, "cancelled")
              /\ pcPc' = "exited"
              /\ pcExit' = 0
              /\ UNCHANGED <<pcTrace, pcBackupCalls, pcCloneCalls, backups, live>>

InitPC ==
    /\ ledgerExists = TRUE
    /\ ledger = LedgerPC
    /\ backups \in InitBackups
    /\ live = ProductionVersion
    /\ ArIdle
    /\ MdIdle
    /\ LwIdle
    /\ FnIdle
    /\ CmIdle
    /\ TkIdle
    /\ EqIdle
    /\ ShIdle
    /\ pcPc = "start"
    /\ pcOptions \in PcOptions
    /\ pcReports = <<>>
    /\ pcNotifications = <<>>
    /\ pcTrace = <<>>
    /\ pcBackupCalls = 0
    /\ pcCloneCalls = <<>>
    /\ pcExit = Running

NextPC == PcMain \/ PcConfirm

SpecPC == InitPC /\ [][NextPC]_vars

(***************************************************************************)
(* Properties                                                              *)
(***************************************************************************)
Last(seq) == seq[Len(seq)]

\* ticks i, i+1, i+2 of the report sequence r all failed
FailRun(r, i) == \A j \in i..(i + 2) : r[j] = "FAIL"

NoFailRun(r) == \A i \in 1..(Len(r) - 2) : ~FailRun(r, i)

ArTicked == Len(reports') = Len(reports) + 1

\* C1: in the auto-rollback loop every failing tick adds one to the
\* consecutive-failure counter, the rollback process is initiated on a tick
\* exactly when the counter reaches 3 on that tick (never on a passing tick,
\* never between ticks), and any three consecutive failing ticks contain
\* exactly one initiation.
C1_EscalationOnThirdFailure ==
    [][ /\ (ArTicked /\ Last(reports') = "FAIL") =>
              /\ consecutiveFailures' = consecutiveFailures + 1
              /\ (Len(reports') \in initiatedAt') <=>
                     (consecutiveFailures' = MAX_CONSECUTIVE_FAILURES)
        /\ (ArTicked /\ Last(reports') = "PASS") => Len(reports') \notin initiatedAt'
        /\ initiatedAt' \ initiatedAt \subseteq (IF ArTicked THEN {Len(reports')} ELSE {})
        /\ \A i \in 1..(Len(reports') - 2) :
              FailRun(reports', i) => Cardinality(initiatedAt' \cap i..(i + 2)) = 1
      ]_vars

C1_Witness ==
    /\ Len(reports) >= 3
    /\ FailRun(reports, Len(reports) - 2)
    /\ consecutiveFailures = MAX_CONSECUTIVE_FAILURES
    /\ initiatedAt = {Len(reports)}

\* C2: after a passing tick the consecutive-failure counter is 0, and as long
\* as no three failing ticks were consecutive the rollback process has not
\* been initiated (no target looked up, no prompt, no backup, no clone).
C2_PassResetsCounter ==
    /\ (reports # <<>> /\ Last(reports) = "PASS") => consecutiveFailures = 0
    /\ NoFailRun(reports) =>
          /\ initiatedAt = {}
          /\ arPc # "confirm"
          /\ backupCalls = 0
          /\ cloneCalls = <<>>

C2_Witness ==
    /\ reports = <<"FAIL", "FAIL", "PASS", "FAIL", "FAIL">>
    /\ consecutiveFailures = 2
    /\ initiatedAt = {}

ArDeclined ==
    /\ Len(notifications') = Len(notifications) + 1
    /\ Last(notifications') = "cancelled"

\* C3: when the operator declines the proposed rollback, no backup is
\* captured and no clone is invoked, the counter is reset to 0, the process
\* goes on with the loop, and every initiation of the rollback process comes
\* at the end of three failing ticks that hold no earlier initiation.
C3_DeclineResets ==
    [][ /\ ArDeclined =>
              /\ backupCalls' = backupCalls
              /\ cloneCalls' = cloneCalls
              /\ backups' = backups
              /\ live' = live
              /\ consecutiveFailures' = 0
              /\ arPc' = "loop"
              /\ arExit' = Running
        /\ \A j \in initiatedAt' :
              /\ j >= 3
              /\ FailRun(reports', j - 2)
              /\ initiatedAt' \cap (j - 2)..(j - 1) = {}
      ]_vars

C3_Witness ==
    /\ initiatedAt = {3, 6}
    /\ \E k \in 1..Len(notifications) : notifications[k] = "cancelled"
    /\ backupCalls = 0
    /\ arPc = "confirm"

MdRolledBack == mdPc = "exited" /\ mdExit = 1 /\ mdChecks # <<>>

\* C4: a monitor that rolls back automatically does so only after failing
\* evaluations on 3 consecutive ticks; a single failing tick never does.
C4_RollbackOnlyAfterThreeFailures ==
    MdRolledBack =>
        /\ Len(mdChecks) >= 3
        /\ \A k \in (Len(mdChecks) - 2)..Len(mdChecks) : mdChecks[k]

ArRollbackSucceeded ==
    /\ arPc = "exited"
    /\ Last(notifications) = "rolled_back"
    /\ ~options.dryRun

\* C5: after a rollback has executed successfully the ledger status of the
\* monitored deployment is rolled_back.
C5_LedgerRolledBack ==
    ArRollbackSucceeded => ledger.production[1].status = "rolled_back"

\* C6: when the rollback's backup capture or clone call fails, the ledger is
\* untouched, a failure notification is sent, the rollback is attempted only
\* once, and the process exits with a non-zero code.
C6_FailedRollbackExitsNonZero ==
    (arPc = "exited" /\ backupCalls > 0 /\ live = DeployedVersion) =>
        /\ ledger = LedgerAR
        /\ Last(notifications) = "rollback_failed"
        /\ backupCalls = 1
        /\ Len(cloneCalls) <= 1
        /\ arExit \notin {0, Running}

\* C7: with --auto-rollback, three consecutive failing ticks and a backup at
\* hand, the rollback is executed against the latest backup and the process
\* exits with code 1; a run that initiates no rollback exits with code 0.
C7_ExitCodes ==
    arPc = "exited" =>
        /\ (options.autoRollback /\ ~options.dryRun /\ options.rollbackTo = NoVersion
               /\ initiatedAt # {} /\ cloneCalls # <<>>) => arExit = 1
        /\ initiatedAt = {} => arExit = 0

AllStatuses ==
    { ledger[k][i].status : k \in {"canary"}, i \in 1..Len(ledger.canary) }
    \cup { ledger[k][i].status : k \in {"production"}, i \in 1..Len(ledger.production) }

TerminalStatuses == {"success", "rolled back", "rolled_back"}

\* C9: once a deployment's status is terminal (success or rolled back), no
\* ledger operation changes it, in the same run or in a later one.
C9_TerminalIsFinal ==
    [][ \A k \in Kinds : \A i \in 1..Len(ledger[k]) :
           ledger[k][i].status \in TerminalStatuses =>
               ledger'[k][i].status = ledger[k][i].status ]_vars

MdAllTicksPassed ==
    /\ mdPc = "exited"
    /\ Len(mdChecks) = mdOptions.ticks
    /\ \A k \in 1..Len(mdChecks) : ~mdChecks[k]

\* C10: in one deployment-monitor run, a deployment found pending is written
\* as monitoring by the first tick, before any write of success or rolled
\* back, and if every tick up to the end of the period passed, its status is
\* success and the exit code is 0.
C10_PendingMonitoringSuccess ==
    (mdStatusLog # <<>> /\ mdStatusLog[1] = "pending") =>
        /\ mdChecks # <<>> => (Len(mdStatusLog) >= 2 /\ mdStatusLog[2] = "monitoring")
        /\ \A i \in 1..Len(mdStatusLog) :
              mdStatusLog[i] \in {"success", "rolled back"} =>
                  \E j \in 1..(i - 1) : mdStatusLog[j] = "monitoring"
        /\ MdAllTicksPassed =>
              /\ Last(mdStatusLog) = "success"
              /\ statusOf(ledger, deploymentType, monitorVersion) = "success"
              /\ mdExit = 0

C10_Witness ==
    /\ mdStatusLog = <<"pending", "monitoring", "monitoring", "success">>
    /\ MdAllTicksPassed
    /\ mdExit = 0

\* the version id of the most recently captured backup in the registry bs
IsLatestBackupVersion(v, bs) ==
    \E b \in bs : b.versionId = v /\ \A c \in bs : c.name <= b.name

IsRollbackTarget(v, bs) ==
    IF options.rollbackTo # NoVersion THEN v = options.rollbackTo
    ELSE IsLatestBackupVersion(v, bs)

ArPrompted == arPc = "loop" /\ arPc' = "confirm"

ArCloned == Len(cloneCalls') = Len(cloneCalls) + 1

\* C11: the version proposed to the operator and the version handed to the
\* clone is the --rollback-to version whenever one was given (backups or not),
\* and otherwise the version id held by the backup with the greatest
\* timestamped name among the backups captured before the rollback.
C11_RollbackTarget ==
    [][ /\ ArPrompted => IsRollbackTarget(pendingTarget'.versionId, backups)
        /\ ArCloned => IsRollbackTarget(Last(cloneCalls'), backups)
        /\ Len(arLog') > Len(arLog) /\ Last(arLog') # noVersionLine =>
               IsRollbackTarget(Last(arLog').versionId, backups)
      ]_vars

C11_Witness ==
    /\ options.rollbackTo = NoVersion
    /\ [name |-> 1, versionId |-> "v1"] \in backups
    /\ [name |-> 2, versionId |-> "v2"] \in backups
    /\ cloneCalls = <<"v2">>
    /\ live = "v2"

ArEscalatedWithoutTarget ==
    /\ initiatedAt # {}
    /\ options.rollbackTo = NoVersion
    /\ \A b \in backups : b.versionId = DeployedVersion

\* C12: when the rollback process is initiated with no --rollback-to and an
\* empty or missing backup registry, the run ends there: the error is logged,
\* a failure notification is sent, no confirmation is asked, no backup is
\* captured and no clone is invoked.
C12_NoTargetAborts ==
    ArEscalatedWithoutTarget =>
        /\ arPc = "exited"
        /\ Last(arLog) = noVersionLine
        /\ Last(notifications) = "no_version"
        /\ pendingTarget = NoBackup
        /\ \A k \in 1..Len(notifications) : notifications[k] # "cancelled"
        /\ backupCalls = 0
        /\ backups = {}
        /\ cloneCalls = <<>>
        /\ live = DeployedVersion

C12_Witness ==
    /\ ArEscalatedWithoutTarget
    /\ ~options.autoRollback
    /\ ~options.dryRun
    /\ Last(notifications) = "no_version"

ArBackupAttempted == backupCalls' = backupCalls + 1

ArBackupCaptured == \E b \in backups' \ backups : b.versionId = live

\* C13: in a live rollback the clone is invoked only in a rollback whose
\* backup of the current live version was captured, at most once; when the
\* backup capture fails the clone is not invoked, the live version stays and
\* the rollback is reported as failed.
C13_CloneOnlyAfterBackup ==
    [][ /\ ArCloned => (ArBackupAttempted /\ ArBackupCaptured)
        /\ Len(cloneCalls') <= Len(cloneCalls) + 1
        /\ (ArBackupAttempted /\ ~ArBackupCaptured) =>
               /\ cloneCalls' = cloneCalls
               /\ live' = live
               /\ Last(notifications') = "rollback_failed"
      ]_vars

C13_Witness ==
    /\ ~options.dryRun
    /\ backupCalls = 1
    /\ [name |-> 3, versionId |-> DeployedVersion] \in backups
    /\ cloneCalls = <<"v1">>
    /\ Last(notifications) = "rolled_back"

ArInitiated == initiatedAt' # initiatedAt

ArAnswered == arPc = "confirm" /\ arPc' # "confirm"

\* C14: with --dry-run the rollback process still determines the target and,
\* unless --auto-rollback is set, asks for confirmation; a confirmed rollback
\* logs the intended target; the backup script and the clone are never
\* invoked, the backups and the live version stay as they were.
C14_DryRun ==
    [][ options.dryRun =>
          /\ backupCalls' = 0 /\ cloneCalls' = <<>>
          /\ backups' = backups /\ live' = live
          /\ (ArInitiated /\ ~noRollbackVersion(rollbackTarget(backups))) =>
                IF options.autoRollback
                THEN /\ arPc' = "exited"
                     /\ IsRollbackTarget(Last(arLog').versionId, backups)
                     /\ Last(arLog').line = dryRunLine(NoVersion).line
                ELSE /\ arPc' = "confirm"
                     /\ IsRollbackTarget(pendingTarget'.versionId, backups)
                     /\ arLog' = arLog
          /\ (ArAnswered /\ arPc' = "exited") =>
                arLog' = Append(arLog, dryRunLine(pendingTarget.versionId))
      ]_vars

C14_Witness ==
    /\ options.dryRun
    /\ ~options.autoRollback
    /\ arPc = "exited"
    /\ pendingTarget.versionId = "v2"
    /\ arLog = <<dryRunLine("v2")>>
    /\ Cardinality(backups) = 2
    /\ backupCalls = 0
    /\ cloneCalls = <<>>

MdTicked == Len(mdChecks') = Len(mdChecks) + 1

MdMonitoredIndex == findIndex(ledger[deploymentType], monitorVersion)

\* C16: a tick of the deployment monitor works on the ledger as it is at that
\* moment and changes only the monitored deployment: its metrics become the
\* snapshot of that tick's values, its status moves from pending to
\* monitoring and otherwise only by the tick's own rollback or completion,
\* its version and date stay, and every other deployment stays as it was.
C16_UpdateFrame ==
    [][ MdTicked =>
          /\ \A k \in Kinds :
                /\ Len(ledger'[k]) = Len(ledger[k])
                /\ \A i \in 1..Len(ledger[k]) :
                      (k # deploymentType \/ i # MdMonitoredIndex) =>
                          ledger'[k][i] = ledger[k][i]
          /\ MdMonitoredIndex # 0 =>
                LET before == ledger[deploymentType][MdMonitoredIndex]
                    after  == ledger'[deploymentType][MdMonitoredIndex]
                IN /\ after.version = before.version
                   /\ after.date = before.date
                   /\ \E m \in collectMetrics :
                         /\ after.metrics = metricsSnapshot(m)
                         /\ Last(mdChecks') = checkRollbackConditions(m, mdOptions.threshold)
                   /\ mdStatusLog'[Len(mdStatusLog) + 1] =
                         (IF before.status = "pending" THEN "monitoring"
                          ELSE before.status)
                   /\ mdPc' = "running" =>
                         after.status = mdStatusLog'[Len(mdStatusLog) + 1]
      ]_vars

\* a tick has rewritten the metrics of a deployment whose run began before
\* another record was added to the ledger
C16_Witness ==
    /\ mdPc = "running"
    /\ Len(mdChecks) = 2
    /\ Len(ledger.canary) = 2
    /\ mdStatusLog = <<"success", "success", "success">>
    /\ ledger.canary[1].metrics.blockedAttempts = 5
    /\ ledger.canary[2].status = "pending"
    /\ ledger.canary[2].metrics.errors = Null

MdInterrupted == mdPc = "running" /\ mdPc' = "exited" /\ ~MdTicked

\* C17: an interrupt ends the run with exit code 0 and without any ledger
\* write, so the deployment keeps the status it had; after the process has
\* exited no tick runs any more.
C17_SigintLeavesLedger ==
    [][ /\ MdInterrupted =>
              /\ ledger' = ledger
              /\ ledgerExists' = ledgerExists
              /\ mdStatusLog' = mdStatusLog
              /\ mdExit' = 0
        /\ mdPc = "exited" => ~MdTicked
      ]_vars

C17_Witness ==
    /\ mdPc = "exited"
    /\ mdExit = 0
    /\ Len(mdChecks) = 1
    /\ mdOptions.ticks = 3
    /\ mdStatusLog = <<"pending", "monitoring">>
    /\ statusOf(ledger, deploymentType, monitorVersion) = "monitoring"

LwWrote(w) ==
    /\ lwPc[w] = "read"
    /\ lwPc'[w] = "idle"
    /\ jobWrites(lwJob[w], lwSnap[w])

\* C15: the read-merge-write of the ledger gives no protection against a
\* concurrent writer: what a process writes is the record it read earlier
\* with its own change, whatever the file holds at the time of the write, so
\* an update completed by the other process in between is lost.
C15_LastWriterWins ==
    [][ \A w \in Writers :
          LwWrote(w) => ledger' = applyJob(lwJob[w], lwSnap[w]) ]_vars

\* the monitor read the ledger, prepare-release added the production record
\* and finished, then the monitor wrote: the production record is gone
C15_Witness ==
    /\ lwPc = [w \in Writers |-> "idle"]
    /\ lwDone = << [op |-> "create", type |-> "canary", errors |-> 1],
                   [op |-> "create", type |-> "production", errors |-> 1],
                   [op |-> "metrics", type |-> "canary", errors |-> 1] >>
    /\ ledger.production = <<>>
    /\ Len(ledger.canary) = 1
    /\ ledger.canary[1].status = "monitoring"

\* C18: evaluateMetrics marks a metric as passing exactly when its value is
\* not null and is at most the threshold, for every metric and threshold
\* table of both scripts, and its overall result is the conjunction of the
\* per-metric flags.
C18_MetricPass ==
    fnResult.done =>
        /\ DOMAIN fnResult.value.details = fnCall.names
        /\ \A n \in fnCall.names :
              fnResult.value.details[n].pass <=>
                  (fnCall.metrics[n] # Null /\ fnCall.metrics[n] <= fnCall.thresholds[n])
        /\ fnResult.value.pass <=>
              (\A n \in fnCall.names : fnResult.value.details[n].pass)

\* the value at the threshold passes, one above fails, null fails
C18_Witness ==
    /\ fnResult.done
    /\ fnCall.script = "auto-rollback"
    /\ fnCall.thresholds = thresholds
    /\ fnCall.metrics.errorRate = thresholds.errorRate
    /\ fnCall.metrics.p95Latency = thresholds.p95Latency + 1
    /\ fnCall.metrics.cpuUsage = Null
    /\ fnResult.value.details.errorRate.pass
    /\ ~fnResult.value.details.p95Latency.pass
    /\ ~fnResult.value.details.cpuUsage.pass
    /\ ~fnResult.value.pass

\* C19: while fewer requests than config.minSampleSize (20) are recorded the
\* canary monitor triggers no rollback, neither in the loop nor in the
\* decision at the end of the monitoring period.
C19_NoRollbackBelowMinSample ==
    cmRollbacks > 0 => cmMetrics.requests >= config.minSampleSize

evaluationKind(script) == IF script = "promote-canary" THEN "canary" ELSE "production"

\* C20: the overall result of evaluateMetrics, which feeds the failure
\* counter of auto-rollback.js and the promotion decision of
\* promote-canary.js, is pass only if the evaluation rests on at least the
\* minimum number of samples and every metric passes.
C20_PassNeedsSampleSize ==
    (fnResult.done /\ fnResult.value.pass) =>
        /\ fnCall.sampleSize >= minSampleSize[evaluationKind(fnCall.script)]
        /\ \A n \in fnCall.names : fnResult.value.details[n].pass

(***************************************************************************)
(* Promotion of a canary (promote-canary.js)                               *)
(***************************************************************************)
PcCloned == Len(pcCloneCalls') = Len(pcCloneCalls) + 1

PcPassReport == pcReports # <<>> /\ Last(pcReports).result = "PASS"

\* C21: the clone of the canary version to live is invoked only when the
\* evaluation passed overall, the operator confirmed (or --auto-promote is
\* set), the run is not a dry run, the active canary version was found and
\* the backup of the current production version completed just before; the
\* steps run in the order confirmation, backup, clone.
C21_PromotionOrder ==
    [][PcCloned =>
        /\ pcReports' # <<>>
        /\ Last(pcReports').result = "PASS"
        /\ \A n \in CanaryMetricNames : Last(pcReports').metrics[n]
        /\ ~pcOptions.dryRun
        /\ pcOptions.autoPromote \/ pcPc = "confirm"
        /\ Last(pcCloneCalls') = DeployedVersion
        /\ pcBackupCalls' = pcBackupCalls + 1
        /\ \E b \in backups' \ backups : b.versionId = live
        /\ pcTrace' = (IF pcOptions.autoPromote THEN <<>> ELSE <<"confirmation">>)
                      \o <<"backup", "clone">>]_vars

C21_Witness ==
    /\ pcTrace = <<"confirmation", "backup", "clone">>
    /\ live = DeployedVersion
    /\ pcPc = "exited"

PcPromoted ==
    /\ pcPc = "exited"
    /\ pcNotifications # <<>>
    /\ Last(pcNotifications) = "promoted"
    /\ ~pcOptions.dryRun

\* C22: after a promotion has been executed successfully, the ledger status
\* of the promoted canary is success and a backup of the prior production
\* version exists in the backup registry.
C22_PromotedLedgerSuccess ==
    PcPromoted =>
        /\ \E i \in 1..Len(ledger.canary) :
              /\ ledger.canary[i].version = CanaryDeployment("success").version
              /\ ledger.canary[i].status = "success"
        /\ \E b \in backups : b.versionId = ProductionVersion

PcEvaluatedFailing ==
    /\ Len(pcReports') = Len(pcReports) + 1
    /\ \E n \in CanaryMetricNames : ~Last(pcReports').metrics[n]

\* C23: when the promotion evaluation fails overall, the controller asks for
\* no confirmation, captures no backup, invokes no clone and changes no
\* ledger entry; it only records the FAIL evaluation report and sends a
\* notification.
C23_FailedEvaluationFrame ==
    [][PcEvaluatedFailing =>
        /\ Last(pcReports').result = "FAIL"
        /\ UNCHANGED <<ledgerExists, ledger, backups, live>>
        /\ UNCHANGED <<pcTrace, pcBackupCalls, pcCloneCalls>>
        /\ pcNotifications' = pcNotifications \o <<"start", "criteria_not_met">>
        /\ pcPc' = "exited"
        /\ pcExit' = 0]_vars

C23_Witness ==
    /\ pcReports # <<>>
    /\ Last(pcReports).result = "FAIL"
    /\ pcNotifications = <<"start", "criteria_not_met">>
    /\ pcPc = "exited"

\* the run passed the evaluation, was not declined and did not end with the
\* canary live: the hosting action failed
PcHostingFailed ==
    /\ pcPc = "exited"
    /\ PcPassReport
    /\ ~pcOptions.dryRun
    /\ Last(pcNotifications) # "cancelled"
    /\ live # DeployedVersion

PcDeclined ==
    /\ pcPc = "exited"
    /\ Last(pcNotifications) = "cancelled"

\* C24: when the hosting action of a promotion fails (no active canary
\* found, backup fails or clone fails) it is not retried, a failure
\* notification is sent and the process exits non-zero; when the operator
\* declines, no action is taken and the process exits with code 0.
C24_PromotionFailure ==
    /\ PcHostingFailed =>
          /\ Last(pcNotifications) = "promotion_failed"
          /\ pcExit # 0
          /\ pcExit # Running
          /\ pcBackupCalls <= 1
          /\ Len(pcCloneCalls) <= 1
    /\ PcDeclined =>
          /\ pcExit = 0
          /\ pcBackupCalls = 0
          /\ pcCloneCalls = <<>>
          /\ live = ProductionVersion
          /\ "backup" \notin {pcTrace[i] : i \in 1..Len(pcTrace)}

C24_Witness ==
    /\ PcHostingFailed
    /\ Len(pcCloneCalls) = 1
    /\ pcExit = 1

C24_WitnessDeclined ==
    /\ PcDeclined
    /\ pcExit = 0

(***************************************************************************)
(* Start of monitor-deployment.js                                          *)
(***************************************************************************)
MdStarted == mdPc' # mdPc /\ mdPc \in {"idle", "exited"}

MdVersionKnown ==
    /\ ledgerExists
    /\ \/ findIndex(ledger.canary, monitorVersion') # 0
       \/ findIndex(ledger.production, monitorVersion') # 0

\* C25: when the version to monitor is found in neither the canary nor the
\* production list, the monitor aborts with an error message and exit code 1
\* before any tick is scheduled, and the ledger file is left unmodified.
C25_UnknownVersionAborts ==
    [][(MdStarted /\ ~MdVersionKnown) =>
        /\ mdPc' = "exited"
        /\ mdExit' = 1
        /\ mdErrors' = <<"deployment not found">>
        /\ mdNow' = 0
        /\ mdChecks' = <<>>
        /\ UNCHANGED <<ledgerExists, ledger>>]_vars

C25_Witness ==
    /\ mdPc = "exited"
    /\ mdExit = 1
    /\ mdErrors = <<"deployment not found">>
    /\ mdChecks = <<>>
    /\ ledgerExists
    /\ Len(ledger.canary) + Len(ledger.production) > 0

(***************************************************************************)
(* Classification of one probe                                             *)
(***************************************************************************)
PbProbed == fnResult.done /\ fnCall.fn \in {"checkEndpoint", "checkEndpoints"}

Is2xx(response) ==
    response.kind = "status" /\ response.status >= 200 /\ response.status < 300

\* C26: a probe is a success exactly when it is answered with a 2xx status;
\* a non-2xx status, a transport error and a timeout are failures, and in
\* the monitors that keep counters every failure increments both the error
\* counter and the request counter.
C26_ProbeClassification ==
    PbProbed =>
        /\ fnResult.value.success <=> Is2xx(fnCall.response)
        /\ (~fnResult.value.success /\ fnCall.fn = "checkEndpoint") =>
              /\ fnResult.value.errors > fnCall.counters.errors
              /\ fnResult.value.requests > fnCall.counters.requests

(***************************************************************************)
(* Inside one iteration of the auto-rollback loop                          *)
(***************************************************************************)
TkSettled(e) == tkProbes[e] \in ProbeOutcomes

\* C27: within one tick the probes of all endpoints are outstanding
\* together: every probe is issued before any probe of the tick is waited
\* for, so no probe is still unissued once another has been answered.
C27_ProbesConcurrent ==
    \A e \in Endpoints :
        TkSettled(e) => \A f \in Endpoints : tkProbes[f] # "notIssued"

TkBegun == tkTick' = tkTick + 1

TkRollbackInProgress == arPc = "confirm"

\* C28: ticks are strictly sequential: a tick starts only after the previous
\* one has finished its probes, its metric fetches, its evaluation and, if
\* triggered, the whole rollback sequence; while a rollback sequence is in
\* progress, and after it has ended the run, nothing is collected.
C28_TicksSequential ==
    [][/\ TkBegun =>
            /\ Len(reports) = tkTick
            /\ ~TkProbing
            /\ ~TkFetching
            /\ arPc = "loop"
       /\ (TkRollbackInProgress \/ arPc = "exited") =>
            /\ ~TkProbing
            /\ ~TkFetching
            /\ UNCHANGED tkVars]_vars

\* the fourth tick starts after the operator declined the rollback of the third
C28_Witness ==
    /\ tkTick = MAX_CONSECUTIVE_FAILURES + 1
    /\ TkProbing
    /\ Last(notifications) = "cancelled"

TkProbeFailed(e) ==
    tkProbes[e] = "outstanding" /\ tkProbes'[e] \in ProbeOutcomes \ {"2xx"}

TkFetchFailed(n) ==
    tkFetch[n] = "pending" /\ tkFetch'[n] = "recorded" /\ tkMetrics'[n] = Null

TkEvaluated == Len(reports') = Len(reports) + 1

TkSignalLost ==
    \/ \E e \in Endpoints : tkProbes[e] \in ProbeOutcomes \ {"2xx"}
    \/ options.datadogApiKey /\ \E n \in MetricNames : tkMetrics[n] = Null

\* C29: losing one signal never aborts a tick: after a failed probe the
\* remaining probes are still issued, after a failed metric fetch the metric
\* is null and the remaining metrics are still fetched, the tick reaches its
\* evaluation with every probe and metric settled, and the loss counts as a
\* failing check instead of ending the run with an error.
C29_SignalLossContinues ==
    [][/\ \A e \in Endpoints : TkProbeFailed(e) =>
            /\ arPc' = "loop"
            /\ arExit' = Running
            /\ IndexOf(EndpointOrder, e) < Len(EndpointOrder) =>
                  tkProbes'[EndpointOrder[IndexOf(EndpointOrder, e) + 1]] = "outstanding"
       /\ \A n \in MetricNames : TkFetchFailed(n) =>
            /\ arPc' = "loop"
            /\ arExit' = Running
            /\ IndexOf(MetricOrder, n) < Len(MetricOrder) =>
                  tkFetch'[MetricOrder[IndexOf(MetricOrder, n) + 1]] = "pending"
       /\ TkEvaluated =>
            /\ \A e \in Endpoints : TkSettled(e)
            /\ options.datadogApiKey => \A n \in MetricNames : tkFetch[n] = "recorded"
            /\ TkSignalLost =>
                  /\ Last(reports') = "FAIL"
                  /\ consecutiveFailures' = consecutiveFailures + 1
                  /\ arExit' \in {Running, 0}]_vars

\* a tick whose first probe failed and whose metrics are all null has been
\* evaluated, and the loop is waiting for the next check
C29_Witness ==
    /\ options.datadogApiKey
    /\ tkProbes[EndpointOrder[1]] = "error"
    /\ \A e \in Endpoints : TkSettled(e)
    /\ \A n \in MetricNames : tkFetch[n] = "recorded" /\ tkMetrics[n] = Null
    /\ reports = <<"FAIL">>
    /\ consecutiveFailures = 1
    /\ arPc = "loop"

(***************************************************************************)
(* Dry run against live run                                                *)
(***************************************************************************)
\* C30: given the same probe outcomes, metric values and operator answers,
\* the dry-run and the live execution of auto-rollback produce the same
\* evaluation results, the same consecutive-failure counter values and the
\* same escalation decisions and end on the same tick; the dry run never
\* calls the backup capture or the clone.
C30_DryRunEquivalent ==
    /\ eqRun["dry"].evaluations = eqRun["live"].evaluations
    /\ eqRun["dry"].counters = eqRun["live"].counters
    /\ eqRun["dry"].failures = eqRun["live"].failures
    /\ eqRun["dry"].initiated = eqRun["live"].initiated
    /\ eqRun["dry"].pc = eqRun["live"].pc
    /\ eqRun["dry"].now = eqRun["live"].now
    /\ eqRun["dry"].backupCalls = 0
    /\ eqRun["dry"].cloneCalls = 0

\* both executions ended on the third check, the live one with a backup
\* call whose script failed
C30_Witness ==
    /\ eqRun["live"].pc = "exited"
    /\ eqRun["dry"].pc = "exited"
    /\ Len(eqRun["dry"].evaluations) = MAX_CONSECUTIVE_FAILURES
    /\ eqRun["live"].backupCalls = 1
    /\ eqRun["live"].cloneCalls = 0
    /\ eqRun["dry"].backupCalls = 0

(***************************************************************************)
(* Percentile and average                                                  *)
(***************************************************************************)
PfPercentileDone == fnResult.done /\ fnCall.fn = "calculatePercentile"

PfAverageDone == fnResult.done /\ fnCall.fn = "calculateAverage"

Elements(array) == {array[i] : i \in 1..Len(array)}

\* C31: the percentile of an empty sample set is 0 for every p, the average
\* of an empty sample set is 0, and the 100th percentile of a non-empty
\* sample set is its maximum.
C31_DegenerateCases ==
    /\ (PfPercentileDone /\ fnCall.array = <<>>) => fnResult.value = 0
    /\ (PfAverageDone /\ fnCall.array = <<>>) => fnResult.value.num = 0
    /\ (PfPercentileDone /\ fnCall.array # <<>> /\ fnCall.percentile = 100) =>
          fnResult.value = Max(Elements(fnCall.array))

\* the 100th percentile of an unsorted array is its greatest element
C31_Witness ==
    /\ PfPercentileDone
    /\ fnCall.array = <<600, 100, 300>>
    /\ fnCall.percentile = 100
    /\ fnResult.value = 600

C31_WitnessEmpty ==
    /\ PfPercentileDone
    /\ fnCall.array = <<>>
    /\ fnCall.percentile = 95
    /\ fnResult.value = 0

Clamp(i, lo, hi) == IF i < lo THEN lo ELSE IF i > hi THEN hi ELSE i

\* C32: for a non-empty sample set of size n and p in 0..100 the percentile
\* is the element of the ascending-sorted samples at index ceil(p/100 * n) - 1
\* clamped to [0, n-1]; it is always an element of the sample set, and for
\* p = 0 it is the minimum.
C32_PercentileClamped ==
    (PfPercentileDone /\ fnCall.array # <<>>) =>
        LET n == Len(fnCall.array)
            index == Clamp(CeilPercent(fnCall.percentile, n) - 1, 0, n - 1)
        IN /\ fnResult.value = SortAscending(fnCall.array)[index + 1]
           /\ fnResult.value \in Elements(fnCall.array)

(***************************************************************************)
(* Completion of the deployment monitor                                    *)
(***************************************************************************)
MdCompleted ==
    /\ MdTicked
    /\ mdPc' = "exited"
    /\ Last(mdStatusLog') = "success"
    /\ statusOf(ledger', deploymentType, monitorVersion) = "success"

\* C33: the deployment monitor sets a deployment's ledger status to success
\* only if no tick of that monitoring run met the rollback conditions, with
\* and without --auto-rollback.
C33_SuccessOnlyWithoutRollbackConditions ==
    [][MdCompleted => \A i \in 1..Len(mdChecks') : ~mdChecks'[i]]_vars

(***************************************************************************)
(* Metrics from the backend                                                *)
(***************************************************************************)
TkBackendHealthy == options.datadogApiKey /\ tkSeries = HealthySeries

\* C34: with a metrics backend configured that returns, for every metric, a
\* non-empty series within the thresholds, every metric is evaluated at the
\* mean of the returned non-null points, a tick with healthy endpoints
\* passes and no rollback process is initiated.
C34_HealthyBackendPasses ==
    [][(TkEvaluated /\ TkBackendHealthy /\ \A e \in Endpoints : tkProbes[e] = "2xx") =>
          /\ \A n \in MetricNames : tkMetrics[n] = meanOfPoints(tkSeries[n])
          /\ Last(reports') = "PASS"
          /\ initiatedAt' = initiatedAt]_vars

(***************************************************************************)
(* The decision at the end of a canary monitoring period                   *)
(***************************************************************************)
ShEnded == shPc = "exited" /\ shNow >= shOptions.duration

\* C35: when its monitoring period ends the canary monitor has exactly three
\* outcomes decided on the accumulated counters: success if errors = 0, a
\* warning without rollback if errors > 0 and errors/requests is at most
\* half the rollback threshold, otherwise a rollback and exit code 1; so an
\* error rate between half the threshold and the threshold, which the loop
\* lets pass, ends in a rollback. (deploy-canary.sh: threshold 10 %.)
C35_ThreeOutcomes ==
    ShEnded =>
        /\ shErrors = 0 => shOutcome = "success"
        /\ (shErrors > 0 /\ shErrors * 20 <= shChecks) => shOutcome = "warning"
        /\ (shErrors > 0 /\ shErrors * 20 > shChecks) =>
              (shOutcome = "rollback: high error rate" /\ shExit = 1)

(***************************************************************************)
(* auto-rollback.js: the consecutive-failure counter and the final         *)
(* notification                                                            *)
(***************************************************************************)
\* the notifications sent right before a break of the monitoring loop
BreakNotifications == {"rolled_back", "rollback_failed", "no_version"}

NotificationsSent == {notifications[i] : i \in 1..Len(notifications)}

\* the loop was left by a break, lines 575, 590 and 594
ArEndedByBreak ==
    /\ arPc = "exited"
    /\ notifications[Len(notifications)] \in BreakNotifications

\* the loop was left because Date.now() < endTime no longer held, line 499
ArEndedByPeriod == arPc = "exited" /\ arNow >= MaxTicks

\* C36: the consecutive-failure counter of auto-rollback.js is always in
\* 0..3; it is 3 only on the tick that initiates the rollback process (the
\* tick just reported is an initiating one and the loop is waiting for the
\* operator or has been left by a break); and the notification 'Deployment
\* monitoring completed successfully' is sent if and only if the loop ended
\* because the period expired, never after a rollback that succeeded or
\* failed or for which no target was available.
C36_CounterAndCompletion ==
    /\ consecutiveFailures \in 0..MAX_CONSECUTIVE_FAILURES
    /\ consecutiveFailures = MAX_CONSECUTIVE_FAILURES =>
          /\ Len(reports) \in initiatedAt
          /\ arPc = "confirm" \/ ArEndedByBreak
    /\ arPc # "exited" => "completed" \notin NotificationsSent
    /\ arPc = "exited" =>
          /\ ArEndedByPeriod \/ ArEndedByBreak
          /\ ArEndedByPeriod <=> ~ArEndedByBreak
          /\ ArEndedByPeriod <=> notifications[Len(notifications)] = "completed"
          /\ ArEndedByBreak => "completed" \notin NotificationsSent

\* the period expired with a positive counter after a declined rollback, and
\* the final notification was sent
C36_Witness ==
    /\ ArEndedByPeriod
    /\ consecutiveFailures > 0
    /\ initiatedAt # {}
    /\ notifications[Len(notifications)] = "completed"

(***************************************************************************)
(* Counting of one probe by the canary and the production monitor          *)
(***************************************************************************)
\* C37: every endpoint probe of the canary and of the production monitor is
\* counted exactly once: whichever of the response, 'error' and timeout
\* callbacks of the request run, the request counter grows by exactly one and
\* the error counter by at most one, so errors never exceed requests.
C37_ProbeCountedOnce ==
    (PbProbed /\ fnCall.fn = "checkEndpoint") =>
        /\ fnResult.value.requests = fnCall.counters.requests + 1
        /\ fnResult.value.errors <= fnCall.counters.errors + 1
        /\ fnResult.value.errors <= fnResult.value.requests

(***************************************************************************)
(* prepare-release.js: the ledger grows by one pending record              *)
(***************************************************************************)
\* the ledger as updateDeploymentRecord reads it: a missing file is empty
LedgerRead == IF ledgerExists THEN ledger ELSE EmptyLedger

\* a step of prepare-release.js: the ledger file is written while the
\* deployment monitor stays where it is
PreparedRelease ==
    /\ UNCHANGED mdVars
    /\ ledger' # ledger \/ ledgerExists' # ledgerExists

NullMetrics == [errors |-> Null, performance |-> Null, userSatisfaction |-> Null]

\* C38: updateDeploymentRecord of prepare-release.js appends exactly one new
\* deployment, with status 'pending' and null metrics, to the list of its
\* kind and leaves every deployment that was there unchanged, also one of
\* the same version; the list of the other kind is untouched.
C38_AppendsOnePending ==
    [][PreparedRelease =>
          \E type \in Kinds :
              LET before == LedgerRead[type]
                  after  == ledger'[type]
              IN /\ ledgerExists'
                 /\ Len(after) = Len(before) + 1
                 /\ SubSeq(after, 1, Len(before)) = before
                 /\ after[Len(after)].status = "pending"
                 /\ after[Len(after)].metrics = NullMetrics
                 /\ \A other \in Kinds \ {type} : ledger'[other] = LedgerRead[other]]_vars

\* a second release of a version that is already recorded and monitored: both
\* records are in the list, the older one with the status monitoring gave it
C38_Witness ==
    \E type \in Kinds :
        /\ Len(ledger[type]) = 2
        /\ ledger[type][1].version = ledger[type][2].version
        /\ ledger[type][1].status # "pending"
        /\ ledger[type][2].status = "pending"
        /\ ledger[type][2].metrics = NullMetrics

(***************************************************************************)
(* auto-rollback.js: the monitoring loop terminates                        *)
(***************************************************************************)
\* C39: every run of the auto-rollback loop eventually terminates, provided
\* the clock advances and the operator eventually answers each prompt: the
\* loop is left either because the monitoring period has elapsed or by the
\* break of the tick on which the rollback succeeded, failed or had no target.
C39_LoopTerminates == <>(ArEndedByPeriod \/ ArEndedByBreak)

\* a run that ended by a rollback the operator confirmed at the second
\* prompt, having declined the first
C39_Witness ==
    /\ ArEndedByBreak
    /\ ~options.autoRollback
    /\ "cancelled" \in NotificationsSent
    /\ Cardinality(initiatedAt) = 2

====
